---- MODULE Spec2Model ----
(***************************************************************************)
(* puckpattern: the event classification and derived-metrics engine.       *)
(*                                                                         *)
(* The store is the relational schema of app/models: game_events and the   *)
(* derived tables shot_events, zone_entries, passes, puck_recoveries,      *)
(* player_game_stats, team_game_stats.  Two classifiers write the derived  *)
(* tables: app/data_import/event_processor.py classifies a play while it   *)
(* is ingested (process_event), app/processing/event_processor.py          *)
(* classifies the stored events of a game afterwards (process_game).       *)
(*                                                                         *)
(* Conventions.  A nullable column holds None.  Float metrics are kept in  *)
(* thousandths (1.5 is 1500).  An ORM query is modelled by its relational  *)
(* meaning; a comparison with a NULL column selects no row.  Where SQL     *)
(* leaves the order of equal sort keys open, the model takes any order.    *)
(***************************************************************************)
EXTENDS Integers, Sequences, FiniteSets, TLC

\* ------------------------------------------------------------------------
\* Bounds of the model
\* ------------------------------------------------------------------------
MaxEvents == 2          \* GameEvent rows ever created
MaxRuns == 2            \* process_game invocations
MaxApi == 1             \* requests to the CRUD endpoints
MaxAsk == 1             \* calls of the metrics service
MaxRequests == 3        \* requests to the teams endpoints

\* ------------------------------------------------------------------------
\* Reference data (games, teams, players) and nullable columns
\* ------------------------------------------------------------------------
None == 0 - 1                       \* NULL / Python None

Games == {1, 2}                     \* Game.id, the integer primary key
GameKey(g) == 100 + g               \* Game.game_id, the NHL identifier string
home_team_id(g) == 1
away_team_id(g) == 2
Players == {1, 2, 3}                \* Player.id
\* Player.team_id: players 1 and 3 are team-mates
PlayerTeam(p) == IF p = 3 THEN 1 ELSE p
\* a participant whose playerId matches no row of players
Unknown == 0

\* Game looked up by primary key; None when no row matches.
GameById(k) == IF k \in Games THEN k ELSE None
\* Game looked up by NHL identifier; None when no row matches.
GameByKey(k) == IF \E g \in Games : GameKey(g) = k
                THEN CHOOSE g \in Games : GameKey(g) = k ELSE None

\* str.lower() on the event types of the model
Lower(s) ==
  CASE s = "GOAL" -> "goal"
    [] s = "TAKEAWAY" -> "takeaway"
    [] s = "ZONE-ENTRY" -> "zone-entry"
    [] s = "PASS" -> "pass"
    [] OTHER -> s

\* the event types of the model that contain the substring "entry" / "pass"
HasEntry(s) == s \in {"zone-entry"}
HasPass(s) == s \in {"pass"}

\* ------------------------------------------------------------------------
\* Queries over game_events
\* ------------------------------------------------------------------------
NextId(table) == Cardinality(table) + 1

EventById(ev, id) == CHOOSE e \in ev : e.id = id

\* the look-back without the filter on the period
Before_any_period(ev, e, w) ==
  {p \in ev : /\ p.game_id = e.game_id
              /\ p.time_elapsed # None
              /\ p.time_elapsed < e.time_elapsed
              /\ p.time_elapsed >= e.time_elapsed - w}

\* rows of the same game and period with time_elapsed in [t - w, t)
Before(ev, e, w) ==
  {p \in ev : /\ p.game_id = e.game_id
              /\ p.period = e.period
              /\ p.time_elapsed # None
              /\ p.time_elapsed < e.time_elapsed
              /\ p.time_elapsed >= e.time_elapsed - w}

\* rows of the same game and period with time_elapsed in (t, t + w]
After(ev, e, w) ==
  {n \in ev : /\ n.game_id = e.game_id
              /\ n.period = e.period
              /\ n.time_elapsed # None
              /\ n.time_elapsed > e.time_elapsed
              /\ n.time_elapsed <= e.time_elapsed + w}

\* order_by(time_elapsed.desc()).first(): the rows with the greatest time
Latest(S) == {p \in S : \A q \in S : q.time_elapsed <= p.time_elapsed}
\* order_by(time_elapsed).first(): the rows with the least time
Earliest(S) == {p \in S : \A q \in S : q.time_elapsed >= p.time_elapsed}

\* ids .first() may return; None for an empty result
FirstIds(S) == IF S = {} THEN {None} ELSE {p.id : p \in S}

_determine_zone(x) ==
  IF x = None THEN "NZ"
  ELSE IF x > 25 THEN "OZ"
  ELSE IF x < 0 - 25 THEN "DZ"
  ELSE "NZ"

\* the zone _process_pass and _process_recovery of the engine store: "NZ"
\* unless the coordinate is known and beyond a blue line
engine_zone(x) ==
  LET zone == "NZ"
  IN IF x # None
     THEN IF x > 25 THEN "OZ"
          ELSE IF x < 0 - 25 THEN "DZ"
          ELSE zone
     ELSE zone

\* determine_zone of the sequence service and of the sequences endpoint
determine_zone(x) ==
  IF x = None THEN "NZ"
  ELSE IF x > 25 THEN "OZ"
  ELSE IF x < 0 - 25 THEN "DZ"
  ELSE "NZ"

\* the zone _is_rush_entry reads a previous event with a known coordinate
\* in: "From defensive zone" below 0, "From neutral zone" between the blue
\* lines, and neither beyond 25, where the loop moves on to the next event
rush_origin_zone(x) ==
  IF x < 0 THEN "DZ"
  ELSE IF 0 - 25 <= x /\ x <= 25 THEN "NZ"
  ELSE "OZ"

\* ------------------------------------------------------------------------
\* State
\* ------------------------------------------------------------------------
VARIABLES
  feed,         \* the plays the NHL API may return (fixed per behaviour)
  events,       \* game_events rows
  shots,        \* shot_events rows
  entries,      \* zone_entries rows
  passes,       \* passes rows
  recoveries,   \* puck_recoveries rows
  pstats,       \* player_game_stats rows
  tstats,       \* team_game_stats rows
  run,          \* the process_game call in progress, its position and locals
  trace,        \* history: the classifier calls made so far, in order
  settled,      \* history: games whose loop ran to its end on the stored events
  nruns,        \* process_game calls started
  napi,         \* CRUD requests served
  response,     \* what the last call of a service or endpoint gave back
  imp,          \* the import_game_events call in progress and its locals
  teams,        \* teams rows
  created       \* history: team_ids a create request named, none deleting since

derived == <<shots, entries, passes, recoveries>>
\* no service or endpoint has answered yet
NoResponse == [op |-> "none", seq |-> 0]
\* the state of the services and endpoints outside the engine
rest == <<response, imp, teams, created>>
\* no import_game_events call has fetched its plays
NoImport == [pc |-> "idle", plays |-> <<>>, queue |-> <<>>, events |-> <<>>]
vars == <<feed, events, shots, entries, passes, recoveries, pstats, tstats,
          run, trace, settled, nruns, napi, rest>>

Idle == [pc |-> "idle", game_id |-> None, queue |-> <<>>, stats |-> <<>>,
         team_id |-> None, ecr |-> None, pri |-> None, pdi |-> None]

\* no process_game call is between its first and last statement
Quiet == run.pc \in {"idle", "done", "failed"}

\* one more classifier call in the history: the run that made it (0 for
\* ingestion), the classifier, the event, and whether a row was inserted
Log(r, op, id, inserted) ==
  Append(trace, [run |-> r, op |-> op, event |-> id, inserted |-> inserted])

\* ------------------------------------------------------------------------
\* app/data_import/event_processor.py: classification at ingestion
\* ------------------------------------------------------------------------
\* _get_preceding_event_id: ids the query may return
_get_preceding_event_id(ev, e, w) == FirstIds(Latest(Before(ev, e, w)))

\* _is_rush_entry of the ingestion classifier
import_is_rush_entry(ev, e) ==
  LET prec == Before(ev, e, 5)
      prog == {_determine_zone(p.x_coordinate) : p \in {q \in prec : q.x_coordinate # None}}
      \* zone_progression is a list: its length counts rows, not zones
      len == Cardinality({q \in prec : q.x_coordinate # None})
  IN IF Cardinality(prec) < 2 THEN FALSE
     ELSE IF len >= 2
          THEN ("DZ" \in prog \/ "NZ" \in prog) /\ _determine_zone(e.x_coordinate) = "OZ"
          ELSE FALSE

\* pri_value with a defensive-zone recovery left at the base value
pri_value_dz_unweighted(zone, recovery_type, lead_to_possession) ==
  LET z == IF zone = "OZ" THEN 2000 ELSE 1000
      t == IF recovery_type = "forecheck" THEN (z * 1500) \div 1000
           ELSE IF recovery_type = "takeaway" THEN (z * 2000) \div 1000
           ELSE z
  IN IF lead_to_possession THEN (t * 1500) \div 1000 ELSE t

\* the PRI value of one recovery, in thousandths (_update_player_pri)
pri_value(zone, recovery_type, lead_to_possession) ==
  LET z == IF zone = "OZ" THEN 2000 ELSE IF zone = "DZ" THEN 500 ELSE 1000
      t == IF recovery_type = "forecheck" THEN (z * 1500) \div 1000
           ELSE IF recovery_type = "takeaway" THEN (z * 2000) \div 1000
           ELSE z
  IN IF lead_to_possession THEN (t * 1500) \div 1000 ELSE t

\* "if player_id:", "if team_id:", "if game_id:"
Given(v) == v # None /\ v # 0

\* "stats.pri or 0.0"
OrZero(v) == IF v = None THEN 0 ELSE v

\* get-or-create of the player's row, then one column raised by delta;
\* the table is returned unchanged when the game or the player's team is
\* missing
BumpStats(ps, game_key, player_id, col, delta) ==
  LET g == GameByKey(game_key)
      old == {s \in ps : s.game_id = g /\ s.player_id = player_id}
  IN IF g = None THEN ps
     ELSE IF old # {}
     THEN LET s == CHOOSE r \in old : \A q \in old : r.id <= q.id
          IN (ps \ {s}) \cup {[s EXCEPT ![col] = OrZero(s[col]) + delta]}
     ELSE IF player_id \notin Players \/ PlayerTeam(player_id) = None THEN ps
     ELSE ps \cup {[[id |-> NextId(ps), player_id |-> player_id, game_id |-> g,
                     team_id |-> PlayerTeam(player_id), ecr |-> None,
                     pri |-> None, pdi |-> None, xg_delta_psm |-> None,
                     ice_plus |-> None]
                    EXCEPT ![col] = delta]}

_update_player_pri(ps, game_key, player_id, zone, recovery_type, lead) ==
  BumpStats(ps, game_key, player_id, "pri",
            pri_value(zone, recovery_type, lead))

Max(a, b) == IF a >= b THEN a ELSE b
Min(a, b) == IF a <= b THEN a ELSE b

\* _calculate_xg of the ingestion classifier, in thousandths; distance in
\* feet, angle in degrees
import_calculate_xg(distance, angle, shot_type, rush_shot, rebound_shot, situation_code) ==
  IF distance = None \/ angle = None THEN 50
  ELSE LET xg_base == Max(10, 1000 - 10 * distance)
           xg0 == (xg_base * (900 - 7 * angle)) \div 900
           xg1 == IF shot_type \in {"Slap Shot", "SLAP_SHOT"} THEN (xg0 * 8) \div 10
                  ELSE IF shot_type \in {"Wrist Shot", "WRIST_SHOT"} THEN (xg0 * 11) \div 10
                  ELSE IF shot_type \in {"Deflected", "DEFLECTION"} THEN (xg0 * 13) \div 10
                  ELSE IF shot_type \in {"Snap Shot", "SNAP_SHOT"} THEN xg0
                  ELSE IF shot_type \in {"Backhand", "BACKHAND"} THEN (xg0 * 9) \div 10
                  ELSE IF shot_type \in {"Tip-In", "TIP_IN"} THEN (xg0 * 14) \div 10
                  ELSE xg0
           xg2 == IF rush_shot THEN (xg1 * 12) \div 10 ELSE xg1
           xg3 == IF rebound_shot THEN (xg2 * 13) \div 10 ELSE xg2
           xg4 == IF situation_code = "PP" THEN (xg3 * 12) \div 10
                  ELSE IF situation_code = "SH" THEN (xg3 * 7) \div 10
                  ELSE xg3
       IN Min(950, xg4)

\* _process_shot_event: always inserts, there is no look-up of an existing
\* row.  The plays of the model carry no yCoord, so distance and angle stay
\* None; they name no assist.
_process_shot_event(e, prec) ==
  [id |-> NextId(shots), event_id |-> e.id, goal |-> (e.event_type = "GOAL"),
   shooter_id |-> e.player_id, primary_assist_id |-> None,
   preceding_event_id |-> prec, rush_shot |-> FALSE, rebound_shot |-> FALSE,
   xg |-> import_calculate_xg(None, None, None, FALSE, FALSE, None)]

\* process_recovery as _process_turnover calls it for a TAKEAWAY
process_recovery(e, prec) ==
  [id |-> NextId(recoveries), event_id |-> e.id, player_id |-> e.player_id,
   zone |-> _determine_zone(e.x_coordinate), recovery_type |-> "takeaway",
   lead_to_possession |-> TRUE, preceded_by_id |-> prec]

\* process_zone_entry as _detect_zone_entry calls it for a ZONE-ENTRY:
\* lead_to_shot is False and lead_to_shot_time is left NULL
process_zone_entry(ev, e) ==
  [id |-> NextId(entries), event_id |-> e.id, entry_type |-> "carry",
   controlled |-> TRUE, player_id |-> e.player_id, lead_to_shot |-> FALSE,
   lead_to_shot_time |-> None,
   attack_speed |-> IF import_is_rush_entry(ev, e) THEN "RUSH" ELSE "CONTROLLED"]

\* process_pass as _process_pass calls it
process_pass(ps, e, zone, passer_id, recipient_id, completed) ==
  [id |-> NextId(ps), event_id |-> e.id, passer_id |-> passer_id,
   recipient_id |-> recipient_id, pass_type |-> "direct", zone |-> zone,
   completed |-> completed, intercepted |-> FALSE, intercepted_by_id |-> None]

\* _check_and_record_shot_assist: ids of the ShotEvent rows the look-ahead
\* may find, None when it finds none (7-second window, shooter = recipient)
SubsequentShots(ev, sh, e, recipient_id) ==
  LET cand == {n \in After(ev, e, 7) :
                 \E s \in sh : s.event_id = n.id /\ s.shooter_id = recipient_id}
      found == {s \in sh : \E n \in Earliest(cand) : s.event_id = n.id}
  IN IF recipient_id = None \/ cand = {} THEN {None} ELSE {s.id : s \in found}

\* _calculate_and_record_xg_delta: without a yCoord the xG at the pass
\* location is 0.0 and the delta is max(0, shot.xg or 0.0)
_calculate_and_record_xg_delta(ps, e, shot, passer_id) ==
  BumpStats(ps, e.game_id, passer_id, "xg_delta_psm", Max(0, OrZero(shot.xg)))

\* lines 692-698: the goal without a primary assist gets the passer
record_assist(sh, shot, passer_id) ==
  IF shot.goal /\ shot.primary_assist_id = None
  THEN (sh \ {shot}) \cup {[shot EXCEPT !.primary_assist_id = passer_id]}
  ELSE sh

\* _process_pass: the play names a passer of the players table and a second
\* participant; the recipient is None when that participant is not in the
\* table.  The plays of the model carry no "completed" detail, so the pass
\* is completed exactly when the recipient was found.
_process_pass(ev, e, passer_id, recipient_id) ==
  LET completed == recipient_id # None
  IN /\ passes' = passes \cup {process_pass(passes, e,
                                             _determine_zone(e.x_coordinate),
                                             passer_id, recipient_id, completed)}
     /\ IF completed
        THEN \E sid \in SubsequentShots(ev, shots, e, recipient_id) :
               IF sid = None THEN UNCHANGED <<shots, pstats>>
               ELSE LET shot == CHOOSE s \in shots : s.id = sid
                    IN /\ pstats' = _calculate_and_record_xg_delta(
                                        pstats, e, shot, passer_id)
                       /\ shots' = record_assist(shots, shot, passer_id)
        ELSE UNCHANGED <<shots, pstats>>

\* the typeDescKey of a play that has none: get() gives None, which is
\* falsy like the empty string
NoType == ""

\* lines 33-46: "if not event_type", "if not period or not time_in_period".
\* A missing key gives None; a period number 0 is falsy as well.  The time
\* is the string timeInPeriod, so 00:00 is not.
Malformed_type_only(play) == play.type = NoType
Malformed(play) ==
  \/ play.type = NoType
  \/ play.period = None \/ play.period = 0
  \/ play.time = None

\* the row process_event stores for the play and returns
GameEventOf(play) ==
  [id |-> NextId(events), game_id |-> GameKey(play.game),
   event_type |-> play.type, period |-> play.period,
   time_elapsed |-> play.time, x_coordinate |-> play.x,
   player_id |-> play.player, team_id |-> play.team]

\* lines 77-114: the stored row is handed to the classifier of its type
ClassifyPlay(play, e, ev) ==
     /\ events' = ev
     /\ settled' = settled \ {e.game_id}
     /\ IF play.type = "GOAL"
        THEN /\ \E prec \in _get_preceding_event_id(ev, e, 10) :
                  shots' = shots \cup {_process_shot_event(e, prec)}
             /\ trace' = Log(0, "shot", e.id, TRUE)
             /\ UNCHANGED <<entries, passes, recoveries, pstats>>
        ELSE IF play.type = "TAKEAWAY" /\ play.player # None
        THEN /\ \E prec \in _get_preceding_event_id(ev, e, 5) :
                  recoveries' = recoveries \cup {process_recovery(e, prec)}
             /\ pstats' = _update_player_pri(pstats, e.game_id, e.player_id,
                              _determine_zone(e.x_coordinate), "takeaway", TRUE)
             /\ trace' = Log(0, "recovery", e.id, TRUE)
             /\ UNCHANGED <<shots, entries, passes>>
        ELSE IF play.type = "ZONE-ENTRY"
        THEN /\ entries' = entries \cup {process_zone_entry(ev, e)}
             /\ trace' = Log(0, "entry", e.id, TRUE)
             /\ UNCHANGED <<shots, passes, recoveries, pstats>>
        ELSE IF play.type = "PASS" /\ play.player # None /\ play.recipient # None
        THEN /\ _process_pass(ev, e, play.player,
                              IF play.recipient \in Players THEN play.recipient
                              ELSE None)
             /\ trace' = Log(0, "pass", e.id, TRUE)
             /\ UNCHANGED <<entries, recoveries>>
        ELSE UNCHANGED <<shots, entries, passes, recoveries, pstats, trace>>

\* process_event: a play without type, period or time is logged and None is
\* returned; any other play is stored as a GameEvent and classified at once
process_event(play) ==
  /\ Quiet
  /\ IF Malformed(play)
     THEN UNCHANGED <<events, settled, shots, entries, passes, recoveries,
                      pstats, trace>>
     ELSE /\ Cardinality(events) < MaxEvents
          /\ ClassifyPlay(play, GameEventOf(play),
                          events \cup {GameEventOf(play)})
  /\ UNCHANGED <<feed, tstats, run, nruns, napi>>

\* import_game_events: one process_event per play, in the order supplied
import_game_events ==
  \E play \in feed : process_event(play) /\ UNCHANGED rest

\* import_service.py, import_game_events, lines 317-326: the plays of the
\* game as the API returned them
fetch_plays(q) ==
  /\ Quiet
  /\ imp.pc = "idle"
  /\ imp' = [pc |-> "loop", plays |-> q, queue |-> q, events |-> <<>>]
  /\ UNCHANGED <<feed, events, shots, entries, passes, recoveries, pstats,
                 tstats, run, trace, settled, nruns, napi, response, teams,
                 created>>

\* lines 328-335: one turn of "for play in plays", and the return of the
\* list of created events after the last play
import_loop ==
  /\ imp.pc = "loop"
  /\ IF imp.queue = <<>>
     THEN /\ imp' = [imp EXCEPT !.pc = "done"]
          /\ UNCHANGED <<feed, events, shots, entries, passes, recoveries,
                         pstats, tstats, run, trace, settled, nruns, napi>>
     ELSE LET play == Head(imp.queue)
          IN /\ process_event(play)
             /\ imp' = [imp EXCEPT
                          !.queue = Tail(imp.queue),
                          !.events = IF Malformed(play) THEN imp.events
                                     ELSE Append(imp.events, NextId(events))]
  /\ UNCHANGED <<response, teams, created>>

\* ------------------------------------------------------------------------
\* app/processing/event_processor.py: classification of stored events
\* ------------------------------------------------------------------------
shot_types == {"shot-on-goal", "blocked-shot", "missed-shot", "goal",
               "failed-shot-attempt"}
recovery_types == {"giveaway", "takeaway"}
\* the event types _process_zone_entry accepts as the shot after an entry
entry_shot_types == {"shot", "shot-on-goal", "goal", "missed-shot"}

\* the look-up filtering on the row's own id instead of its event_id
HasRow_by_row_id(table, e) == \E r \in table : r.id = e.id

\* db.query(T).filter(T.event_id == event.id).first() is not None
HasRow(table, e) == \E r \in table : r.event_id = e.id

_is_processed(sh, en, pa, re, e) ==
  LET event_type == Lower(e.event_type)
  IN IF event_type \in shot_types THEN HasRow(sh, e)
     ELSE IF HasEntry(event_type) THEN HasRow(en, e)
     ELSE IF HasPass(event_type) THEN HasRow(pa, e)
     ELSE IF event_type \in recovery_types THEN HasRow(re, e)
     ELSE TRUE

_is_zone_entry(ev, e) ==
  \/ HasEntry(Lower(e.event_type))
  \/ /\ e.x_coordinate # None
     /\ e.x_coordinate > 25
     /\ \E p \in Before(ev, e, 5) : /\ p.team_id = e.team_id
                                    /\ p.x_coordinate # None
                                    /\ p.x_coordinate <= 25
  \/ /\ e.event_type \in {"shot", "shot-on-goal", "pass"}
     /\ e.x_coordinate # None
     /\ e.x_coordinate > 25
     /\ {p \in Before(ev, e, 3) : p.team_id = e.team_id} = {}

_is_pass(e) == FALSE

\* classification does arithmetic on event.time_elapsed (lines 327, 667, 238,
\* 483); on a NULL time_elapsed Python raises TypeError
Raises(e) ==
  /\ e.time_elapsed = None
  /\ \/ Lower(e.event_type) \in shot_types
     \/ Lower(e.event_type) \in recovery_types
     \/ HasEntry(Lower(e.event_type))
     \/ (e.x_coordinate # None /\ e.x_coordinate > 25)

_is_rush_shot(ev, e, preceding_event_id) ==
  IF preceding_event_id = None THEN FALSE
  ELSE LET prev_event == EventById(ev, preceding_event_id)
       IN IF /\ prev_event.x_coordinate # None
             /\ 0 - 25 <= prev_event.x_coordinate
             /\ prev_event.x_coordinate <= 25
          THEN e.time_elapsed - prev_event.time_elapsed <= 5
          ELSE FALSE

_is_rebound_shot(ev, e, preceding_event_id) ==
  IF preceding_event_id = None THEN FALSE
  ELSE LET prev_event == EventById(ev, preceding_event_id)
       IN IF prev_event.event_type \in {"shot", "shot-on-goal", "missed-shot"}
          THEN e.time_elapsed - prev_event.time_elapsed <= 3
          ELSE FALSE

\* _process_shot (the second definition, line 264, is the one in effect)
\* shot_type.lower().replace(" ", "_") on the spellings the feeds use
shot_type_key(shot_type) ==
  IF shot_type \in {"wrist_shot", "Wrist Shot", "WRIST_SHOT"} THEN "wrist_shot"
  ELSE IF shot_type \in {"slap_shot", "Slap Shot", "SLAP_SHOT"} THEN "slap_shot"
  ELSE IF shot_type \in {"snap_shot", "Snap Shot", "SNAP_SHOT"} THEN "snap_shot"
  ELSE IF shot_type \in {"backhand", "Backhand", "BACKHAND"} THEN "backhand"
  ELSE IF shot_type \in {"deflection", "Deflection", "DEFLECTION"} THEN "deflection"
  ELSE IF shot_type \in {"tip_in", "Tip In", "TIP_IN"} THEN "tip_in"
  ELSE IF shot_type \in {"one_timer", "One Timer", "ONE_TIMER"} THEN "one_timer"
  ELSE IF shot_type = "Tip-In" THEN "tip-in"
  ELSE IF shot_type = "Deflected" THEN "deflected"
  ELSE shot_type

\* type_multipliers.get(key, 1.0), in hundredths
type_multiplier(key) ==
  IF key = "slap_shot" THEN 90
  ELSE IF key = "backhand" THEN 85
  ELSE IF key = "deflection" THEN 130
  ELSE IF key = "tip_in" THEN 140
  ELSE IF key = "one_timer" THEN 120
  ELSE 100

\* _calculate_xg of the processing classifier, in thousandths
_calculate_xg(distance, angle, shot_type) ==
  IF distance = None \/ angle = None THEN 50
  ELSE LET base_xg == Max(10, 1000 - 10 * distance)
           xg == (base_xg * (900 - 7 * angle)) \div 900
       IN Min(950, (xg * type_multiplier(shot_type_key(shot_type))) \div 100)

_is_scoring_chance(distance, angle) ==
  IF distance = None \/ angle = None THEN FALSE
  ELSE distance <= 30 \/ angle <= 30

_is_high_danger(distance, angle) ==
  IF distance = None \/ angle = None THEN FALSE
  ELSE distance <= 15 \/ angle <= 15

\* the events of the model carry no y_coordinate and no details, so
\* distance and angle stay None and shot_type keeps its default
_process_shot(ev, sh, e, prec) ==
  LET distance == None
      angle == None
  IN IF HasRow(sh, e) THEN sh
     ELSE sh \cup {[id |-> NextId(sh), event_id |-> e.id,
                    distance |-> distance, angle |-> angle,
                    goal |-> (e.event_type = "goal"),
                    shooter_id |-> e.player_id, primary_assist_id |-> None,
                    preceding_event_id |-> prec,
                    xg |-> _calculate_xg(distance, angle, "wrist_shot"),
                    is_scoring_chance |-> _is_scoring_chance(distance, angle),
                    is_high_danger |-> _is_high_danger(distance, angle),
                    rush_shot |-> _is_rush_shot(ev, e, prec),
                    rebound_shot |-> _is_rebound_shot(ev, e, prec)]}

\* verdicts _is_rush_entry may reach: the latest same-team row within 5 s
\* that is not in the offensive zone decides
_is_rush_entry(ev, e) ==
  LET cand == {p \in Before(ev, e, 5) : /\ p.team_id = e.team_id
                                        /\ p.x_coordinate # None
                                        /\ p.x_coordinate <= 25}
  IN IF cand = {} THEN {FALSE}
     ELSE {IF p.x_coordinate < 0 THEN TRUE
           ELSE e.time_elapsed - p.time_elapsed <= 4 : p \in Latest(cand)}

\* the same-team shots within 10 s after the entry, earliest first
NextShots(ev, e) ==
  Earliest({n \in After(ev, e, 10) : /\ n.team_id = e.team_id
                                     /\ n.event_type \in entry_shot_types})

\* _process_zone_entry without the look-up of lines 441-445
_process_zone_entry_no_lookup(ev, en, e, next_shot, rush) ==
  en \cup {[id |-> NextId(en), event_id |-> e.id, entry_type |-> "carry",
            controlled |-> TRUE, player_id |-> e.player_id,
            lead_to_shot |-> (next_shot # None),
            lead_to_shot_time |->
              IF next_shot = None THEN None
              ELSE EventById(ev, next_shot).time_elapsed - e.time_elapsed,
            attack_speed |-> IF rush THEN "RUSH" ELSE "CONTROLLED"]}

\* _process_zone_entry, lines 433-510
_process_zone_entry(ev, en, e, next_shot, rush) ==
  IF HasRow(en, e) THEN en
  ELSE en \cup {[id |-> NextId(en), event_id |-> e.id, entry_type |-> "carry",
                 controlled |-> TRUE, player_id |-> e.player_id,
                 lead_to_shot |-> (next_shot # None),
                 lead_to_shot_time |->
                   IF next_shot = None THEN None
                   ELSE EventById(ev, next_shot).time_elapsed - e.time_elapsed,
                 attack_speed |-> IF rush THEN "RUSH" ELSE "CONTROLLED"]}

_process_recovery(ev, re, e, prec) ==
  IF HasRow(re, e) THEN re
  ELSE re \cup {[id |-> NextId(re), event_id |-> e.id, player_id |-> e.player_id,
                 zone |-> engine_zone(e.x_coordinate),
                 recovery_type |-> IF e.event_type = "takeaway" THEN "takeaway"
                                   ELSE "loose",
                 lead_to_possession |->
                   ({n \in After(ev, e, 3) : n.team_id = e.team_id} # {}),
                 preceded_by_id |-> prec]}

\* ------------------------------------------------------------------------
\* app/processing/event_processor.py: the custom metrics
\* ------------------------------------------------------------------------
\* the game_events rows the row joins on event_id
Joined(ev, row) == {e \in ev : e.id = row.event_id}

\* calculate_ecr: the game is looked up by primary key (Game.id == game_id)
\* and the game filter is applied only when that look-up finds a row
calculate_ecr(en, ev, player_id, team_id, game_id) ==
  LET game == IF game_id = None THEN None ELSE GameById(game_id)
      InGame(e) == e.game_id = GameKey(game)
      InTeam(e) == e.team_id = team_id
      q == {z \in en : /\ z.controlled
                       /\ game # None => (\E e \in Joined(ev, z) : InGame(e))
                       /\ player_id # None => z.player_id = player_id
                       /\ team_id # None => (\E e \in Joined(ev, z) : InTeam(e))}
      total_entries == Cardinality(q)
  IN IF total_entries = 0 THEN 0
     ELSE (Cardinality({z \in q : z.lead_to_shot}) * 1000) \div total_entries

zone_weight(zone) ==
  IF zone = "OZ" THEN 2000 ELSE IF zone = "DZ" THEN 500 ELSE 1000
type_weight(recovery_type) ==
  IF recovery_type = "takeaway" THEN 2000
  ELSE IF recovery_type = "forecheck" THEN 1500 ELSE 1000
outcome_weight(lead_to_possession) == IF lead_to_possession THEN 1500 ELSE 1000

RECURSIVE pri_score(_)
pri_score(rs) ==
  IF rs = {} THEN 0
  ELSE LET r == CHOOSE x \in rs : TRUE
       IN (((zone_weight(r.zone) * type_weight(r.recovery_type)) \div 1000)
             * outcome_weight(r.lead_to_possession)) \div 1000
          + pri_score(rs \ {r})

calculate_pri(re, ev, player_id, team_id, game_id) ==
  LET game == IF game_id = None THEN None ELSE GameById(game_id)
      InGame(e) == e.game_id = GameKey(game)
      InTeam(e) == e.team_id = team_id
  IN pri_score({r \in re : /\ game # None => (\E e \in Joined(ev, r) : InGame(e))
                           /\ player_id # None => r.player_id = player_id
                           /\ team_id # None => (\E e \in Joined(ev, r) : InTeam(e))})

\* the outcome of a call that raised NameError
NameError == 0 - 2

\* calculate_pdi, in thousandths: 1.5 for each intercepted pass, 2.0 for
\* each denied entry, 1.8 for each takeaway.  With a team_id the denials
\* query evaluates or_ and and_ (line 936), names the module never imports.
\* No classifier sets ZoneEntry.defender_id, so a player has no denials.
calculate_pdi(pa, en, re, ev, player_id, team_id, game_id) ==
  LET game == IF game_id = None THEN None ELSE GameById(game_id)
      InGame(row) == game # None => \E e \in Joined(ev, row) :
                                       e.game_id = GameKey(game)
      intercepted_passes ==
        Cardinality({p \in pa :
           /\ p.intercepted
           /\ (Given(player_id) => p.intercepted_by_id = player_id)
           /\ InGame(p)})
      denied_entries ==
        Cardinality({z \in en : ~ z.controlled /\ ~ Given(player_id) /\ InGame(z)})
      takeaways ==
        Cardinality({r \in re :
           /\ r.recovery_type = "takeaway"
           /\ (Given(player_id) => r.player_id = player_id)
           /\ InGame(r)})
  IN IF Given(team_id) THEN NameError
     ELSE intercepted_passes * 1500 + denied_entries * 2000 + takeaways * 1800

\* ------------------------------------------------------------------------
\* process_game
\* ------------------------------------------------------------------------
\* order_by(GameEvent.period, GameEvent.time_elapsed): NULL sorts first or
\* last, as the database decides
KeyLeq(a, b, nulls_first) ==
  \/ a.period < b.period
  \/ /\ a.period = b.period
     /\ IF a.time_elapsed = None /\ b.time_elapsed = None THEN TRUE
        ELSE IF a.time_elapsed = None THEN nulls_first
        ELSE IF b.time_elapsed = None THEN ~nulls_first
        ELSE a.time_elapsed <= b.time_elapsed

OrderedIds(S) ==
  LET n == Cardinality(S)
      ids == {e.id : e \in S}
      row(id) == CHOOSE e \in S : e.id = id
  IN {q \in [1..n -> ids] :
        /\ \A i, j \in 1..n : i # j => q[i] # q[j]
        /\ \E nulls_first \in BOOLEAN :
             \A i, j \in 1..n : i < j => KeyLeq(row(q[i]), row(q[j]), nulls_first)}

GameEvents(ev, game_key) == {e \in ev : e.game_id = game_key}

Counters(n) == [total_events |-> n, shots_processed |-> 0,
                entries_processed |-> 0, passes_processed |-> 0,
                recoveries_processed |-> 0, other_processed |-> 0]

\* lines 33-54: load the game's events in time order
StartGame(g) ==
  /\ Quiet
  /\ nruns < MaxRuns
  /\ nruns' = nruns + 1
  /\ \E q \in OrderedIds(GameEvents(events, GameKey(g))) :
       run' = [pc |-> "classify", game_id |-> GameKey(g), queue |-> q,
               stats |-> Counters(Len(q)), team_id |-> None, ecr |-> None,
               pri |-> None, pdi |-> None]
  /\ UNCHANGED <<rest, feed, events, shots, entries, passes, recoveries, pstats,
                 tstats, trace, settled, napi>>

\* the event counted by a second branch of the chain as well
Count_in_two_branches(field) ==
  [run EXCEPT !.queue = Tail(run.queue),
              !.stats[field] = run.stats[field] + 1,
              !.stats.other_processed = run.stats.other_processed + 1]

Count(field) == [run EXCEPT !.queue = Tail(run.queue),
                            !.stats[field] = run.stats[field] + 1]

\* lines 59-95: the body of the loop for one event; an exception raised by
\* a classifier leaves the loop and process_game
Dispatch(e) ==
  LET event_type == Lower(e.event_type)
  IN IF _is_processed(shots, entries, passes, recoveries, e)
     THEN /\ run' = [run EXCEPT !.queue = Tail(run.queue)]
          /\ UNCHANGED <<shots, entries, recoveries, trace>>
     ELSE IF Raises(e)
     THEN /\ run' = [run EXCEPT !.pc = "failed"]
          /\ UNCHANGED <<shots, entries, recoveries, trace>>
     ELSE IF event_type \in shot_types
     THEN /\ \E prec \in FirstIds(Latest(Before(events, e, 3))) :
               shots' = _process_shot(events, shots, e, prec)
          /\ run' = Count("shots_processed")
          /\ trace' = Log(nruns, "shot", e.id, shots' # shots)
          /\ UNCHANGED <<entries, recoveries>>
     ELSE IF event_type \in recovery_types
     THEN /\ \E prec \in FirstIds(Latest(Before(events, e, 3))) :
               recoveries' = _process_recovery(events, recoveries, e, prec)
          /\ run' = Count("recoveries_processed")
          /\ trace' = Log(nruns, "recovery", e.id, recoveries' # recoveries)
          /\ UNCHANGED <<shots, entries>>
     ELSE IF _is_zone_entry(events, e)
     THEN /\ \E next_shot \in FirstIds(NextShots(events, e)) :
             \E rush \in _is_rush_entry(events, e) :
               entries' = _process_zone_entry(events, entries, e, next_shot,
                                              rush)
          /\ run' = Count("entries_processed")
          /\ trace' = Log(nruns, "entry", e.id, entries' # entries)
          /\ UNCHANGED <<shots, recoveries>>
     ELSE IF _is_pass(e)
     THEN /\ run' = Count("passes_processed")
          /\ UNCHANGED <<shots, entries, recoveries, trace>>
     ELSE /\ run' = [run EXCEPT !.queue = Tail(run.queue)]
          /\ UNCHANGED <<shots, entries, recoveries, trace>>

\* the loop writing the lower-cased type back to the event it classifies
ClassifyEvent_writes_back ==
  /\ run.pc = "classify"
  /\ run.queue # <<>>
  /\ Dispatch(EventById(events, Head(run.queue)))
  /\ events' = {IF e.id = Head(run.queue)
                THEN [e EXCEPT !.event_type = Lower(e.event_type)] ELSE e :
                e \in events}
  /\ UNCHANGED <<rest, feed, passes, pstats, tstats, settled, nruns, napi>>

\* lines 57-95: one iteration of the loop over the events
ClassifyEvent ==
  /\ run.pc = "classify"
  /\ run.queue # <<>>
  /\ Dispatch(EventById(events, Head(run.queue)))
  /\ UNCHANGED <<rest, feed, events, passes, pstats, tstats, settled, nruns, napi>>

\* _calculate_player_stats: a player of the game that has a row is skipped
\* (line 728), one without a team too (line 733); for the first other player
\* line 750 evaluates or_, a name the module never imports, and NameError
\* leaves process_game before any row is built
PendingPlayers(ev, ps, game_key) ==
  {p \in {e.player_id : e \in GameEvents(ev, game_key)} :
     /\ p # None
     /\ ~ \E s \in ps : s.player_id = p /\ s.game_id = GameByKey(game_key)
     /\ p \in Players
     /\ PlayerTeam(p) # None}

_calculate_player_stats ==
  /\ run.pc = "classify"
  /\ run.queue = <<>>
  /\ run' = [run EXCEPT !.pc = IF PendingPlayers(events, pstats, run.game_id) # {}
                                THEN "failed" ELSE "teams"]
  /\ settled' = settled \cup {run.game_id}
  /\ UNCHANGED <<rest, feed, events, shots, entries, passes, recoveries, pstats,
                 tstats, trace, nruns, napi>>

\* _calculate_team_stats: home team, then away team.  A team that has a row
\* is skipped (line 1103); for the first other team ecr and pri are computed
\* (lines 1138-1139) and then calculate_pdi evaluates or_ (line 936) and
\* NameError leaves process_game.  With both rows present process_game
\* commits and returns its counters.
MissingTeams(ts, g) ==
  {t \in {home_team_id(g), away_team_id(g)} :
     ~ \E s \in ts : s.game_id = g /\ s.team_id = t}

_calculate_team_stats ==
  /\ run.pc = "teams"
  /\ LET g == GameByKey(run.game_id)
         missing == MissingTeams(tstats, g)
         team_id == IF home_team_id(g) \in missing THEN home_team_id(g)
                    ELSE away_team_id(g)
     IN IF missing = {}
        THEN run' = [run EXCEPT !.pc = "done"]
        ELSE run' = [run EXCEPT
                       !.pc = "failed",
                       !.team_id = team_id,
                       !.ecr = calculate_ecr(entries, events, None, team_id,
                                             run.game_id),
                       !.pri = calculate_pri(recoveries, events, None, team_id,
                                             run.game_id),
                       !.pdi = calculate_pdi(passes, entries, recoveries,
                                             events, None, team_id,
                                             run.game_id)]
  /\ UNCHANGED <<rest, feed, events, shots, entries, passes, recoveries, pstats,
                 tstats, trace, settled, nruns, napi>>

\* ------------------------------------------------------------------------
\* calculate_stats.py: the script that fills in missing team_game_stats
\* ------------------------------------------------------------------------
team_stats_row(ev, ts, g, t) ==
  [id |-> NextId(ts), team_id |-> t, game_id |-> g,
   shots |-> Cardinality({e \in GameEvents(ev, GameKey(g)) :
                /\ e.team_id = t
                /\ e.event_type \in {"shot-on-goal", "goal", "missed-shot"}}),
   goals |-> Cardinality({e \in GameEvents(ev, GameKey(g)) :
                /\ e.team_id = t /\ e.event_type = "goal"}),
   team_ecr |-> None, team_pri |-> None]

RECURSIVE add_team_stats(_, _, _)
add_team_stats(ev, ts, todo) ==
  IF todo = {} THEN ts
  ELSE LET k == CHOOSE x \in todo : \A y \in todo :
                   x[1] < y[1] \/ (x[1] = y[1] /\ x[2] <= y[2])
       IN add_team_stats(ev, ts \cup {team_stats_row(ev, ts, k[1], k[2])},
                         todo \ {k})

calculate_stats ==
  LET todo == {k \in Games \X {1, 2} : k[2] \in MissingTeams(tstats, k[1])}
  IN /\ Quiet
     /\ todo # {}
     /\ tstats' = add_team_stats(events, tstats, todo)
     /\ UNCHANGED <<rest, feed, events, shots, entries, passes, recoveries, pstats,
                    run, trace, settled, nruns, napi>>

\* ------------------------------------------------------------------------
\* app/crud: the requests of the REST layer that write the same tables
\* ------------------------------------------------------------------------
\* crud/events.py update_event with {"time_elapsed": null}: exclude_unset
\* keeps the explicit null and setattr stores it
update_event(id) ==
  /\ Quiet
  /\ napi < MaxApi
  /\ \E e \in events :
       /\ e.id = id
       /\ e.time_elapsed # None
       /\ events' = (events \ {e}) \cup {[e EXCEPT !.time_elapsed = None]}
       /\ settled' = settled \ {e.game_id}
  /\ napi' = napi + 1
  /\ UNCHANGED <<rest, feed, shots, entries, passes, recoveries, pstats, tstats, run,
                 trace, nruns>>

\* crud/entries.py create_entry: the request's fields are stored as given
create_entry(event_id, controlled, lead_to_shot, lead_to_shot_time) ==
  /\ Quiet
  /\ napi < MaxApi
  /\ \E e \in events : e.id = event_id       \* zone_entries.event_id is a foreign key
  /\ entries' = entries \cup
       {[id |-> NextId(entries), event_id |-> event_id, entry_type |-> "carry",
         controlled |-> controlled, player_id |-> None,
         lead_to_shot |-> lead_to_shot,
         lead_to_shot_time |-> lead_to_shot_time, attack_speed |-> None]}
  /\ napi' = napi + 1
  /\ UNCHANGED <<rest, feed, events, shots, passes, recoveries, pstats, tstats, run,
                 trace, settled, nruns>>

\* ------------------------------------------------------------------------
\* app/services/metrics_service.py: the metrics the endpoints serve
\* ------------------------------------------------------------------------
\* the filters on the joined game_events row; game_id is compared with
\* GameEvent.game_id
InScope(ev, row, team_id, game_id) ==
  /\ (Given(team_id) => \E e \in Joined(ev, row) : e.team_id = team_id)
  /\ (Given(game_id) => \E e \in Joined(ev, row) : e.game_id = game_id)

\* MetricsService.calculate_ecr, in thousandths
MetricsService_calculate_ecr(en, ev, player_id, team_id, game_id) ==
  LET q == {z \in en : /\ z.controlled
                       /\ (Given(player_id) => z.player_id = player_id)
                       /\ InScope(ev, z, team_id, game_id)}
      total_entries == Cardinality(q)
      successful_entries == Cardinality({z \in q : z.lead_to_shot})
  IN IF total_entries > 0 THEN (successful_entries * 1000) \div total_entries
     ELSE 0

\* MetricsService.calculate_pri, in thousandths
MetricsService_calculate_pri(re, ev, player_id, team_id, game_id) ==
  pri_score({r \in re : /\ (Given(player_id) => r.player_id = player_id)
                        /\ InScope(ev, r, team_id, game_id)})

\* MetricsService.calculate_pdi, in thousandths: 1.5 for each intercepted
\* pass, 1.8 for each takeaway
MetricsService_calculate_pdi(pa, re, ev, player_id, team_id, game_id) ==
  LET intercepted_passes ==
        Cardinality({p \in pa :
           /\ p.intercepted
           /\ (Given(player_id) => p.intercepted_by_id = player_id)
           /\ InScope(ev, p, team_id, game_id)})
      takeaways ==
        Cardinality({r \in re :
           /\ r.recovery_type = "takeaway"
           /\ (Given(player_id) => r.player_id = player_id)
           /\ InScope(ev, r, team_id, game_id)})
  IN intercepted_passes * 1500 + takeaways * 1800

\* _calculate_xg_from_location, for a missing coordinate and for a point
\* on the line through the goals (y_coordinate = 0): the distance is then
\* |x - 89| and the angle 0, or 90 on the goal line
_calculate_xg_from_location(x_coordinate, y_coordinate) ==
  IF x_coordinate = None \/ y_coordinate = None THEN 50
  ELSE LET distance == IF x_coordinate > 89 THEN x_coordinate - 89
                       ELSE 89 - x_coordinate
           angle == IF x_coordinate # 89 THEN 0 ELSE 90
           base_xg == Max(10, 1000 - 10 * distance)
       IN Min(950, (base_xg * (900 - 7 * angle)) \div 900)

\* the deltas one pass may add: shots[0] of the shots joined to events of
\* the same game and period in the 3 s after the pass, in whatever order
\* the query returns them; nothing without such a shot
PassXgDeltas(sh, ev, p) ==
  LET pass_game_event == EventById(ev, p.event_id)
      shots_after == {s \in sh : \E e \in After(ev, pass_game_event, 3) :
                                  e.id = s.event_id}
      pass_xg == _calculate_xg_from_location(pass_game_event.x_coordinate, None)
  IN IF shots_after = {} THEN {0}
     ELSE {Max(0, OrZero(s.xg) - pass_xg) : s \in shots_after}

\* the totals the loop over the passes may reach
RECURSIVE xg_delta_totals(_, _, _)
xg_delta_totals(sh, ev, ps) ==
  IF ps = {} THEN {0}
  ELSE LET p == CHOOSE x \in ps : TRUE
       IN {d + t : d \in PassXgDeltas(sh, ev, p),
                   t \in xg_delta_totals(sh, ev, ps \ {p})}

\* MetricsService.calculate_xg_delta_psm: the values it may return
MetricsService_calculate_xg_delta_psm(pa, sh, ev, player_id, team_id, game_id) ==
  xg_delta_totals(sh, ev,
    {p \in pa : /\ p.completed
                /\ Joined(ev, p) # {}
                /\ (Given(player_id) => p.passer_id = player_id)
                /\ InScope(ev, p, team_id, game_id)})

RECURSIVE SumXg(_)
SumXg(S) ==
  IF S = {} THEN 0
  ELSE LET s == CHOOSE x \in S : TRUE IN OrZero(s.xg) + SumXg(S \ {s})

\* MetricsService.calculate_shot_metrics; the float fields in thousandths
MetricsService_calculate_shot_metrics(sh, ev, player_id, team_id, game_id) ==
  LET q == {s \in sh : /\ (Given(player_id) => s.shooter_id = player_id)
                       /\ InScope(ev, s, team_id, game_id)}
      total_shots == Cardinality(q)
      goals == Cardinality({s \in q : s.goal})
      total_xg == SumXg(q)
  IN IF total_shots = 0
     THEN [total_shots |-> 0, goals |-> 0, shooting_percentage |-> 0,
           total_xg |-> 0, avg_xg |-> 0, xg_performance |-> 0]
     ELSE [total_shots |-> total_shots, goals |-> goals,
           shooting_percentage |-> (goals * 100 * 1000) \div total_shots,
           total_xg |-> total_xg, avg_xg |-> total_xg \div total_shots,
           xg_performance |-> goals * 1000 - total_xg]

\* a / 1000, rounded towards minus infinity like \div
Scaled(weight, v) == (weight * v) \div 1000

\* MetricsService.calculate_player_metrics: the player's metrics over all
\* games and the "simplified" ICE+ of lines 300-307
MetricsService_calculate_player_metrics(player_id) ==
  IF player_id \notin Players THEN [error |-> "Player not found"]
  ELSE LET ecr == MetricsService_calculate_ecr(entries, events, player_id,
                                               None, None)
           pri == MetricsService_calculate_pri(recoveries, events, player_id,
                                               None, None)
           shot_metrics == MetricsService_calculate_shot_metrics(
                             shots, events, player_id, None, None)
           ice0 == IF shot_metrics.total_shots > 0
                   THEN Scaled(2000, shot_metrics.xg_performance) ELSE 0
       IN [ecr |-> ecr, pri |-> pri, shot_metrics |-> shot_metrics,
           total_events |-> Cardinality({e \in events : e.player_id = player_id}),
           ice_plus |-> ice0 + Scaled(1500, ecr) + Scaled(1200, pri)]

\* a call of one MetricsService function and what it returned; seq counts
\* the calls
Answer(op, player_id, team_id, game_id, body) ==
  [op |-> op, seq |-> response.seq + 1, player_id |-> player_id,
   team_id |-> team_id, game_id |-> game_id, body |-> body]

MetricsCall(op, player_id, team_id, game_id, body) ==
  /\ Quiet
  /\ response.seq < MaxAsk
  /\ response' = Answer(op, player_id, team_id, game_id, body)
  /\ UNCHANGED <<feed, events, shots, entries, passes, recoveries, pstats,
                 tstats, run, trace, settled, nruns, napi, imp, teams,
                 created>>

get_ecr(player_id, team_id, game_id) ==
  MetricsCall("ecr", player_id, team_id, game_id,
              MetricsService_calculate_ecr(entries, events, player_id, team_id,
                                           game_id))

get_pri(player_id, team_id, game_id) ==
  MetricsCall("pri", player_id, team_id, game_id,
              MetricsService_calculate_pri(recoveries, events, player_id,
                                           team_id, game_id))

get_pdi(player_id, team_id, game_id) ==
  MetricsCall("pdi", player_id, team_id, game_id,
              MetricsService_calculate_pdi(passes, recoveries, events,
                                           player_id, team_id, game_id))

get_xg_delta_psm(player_id, team_id, game_id) ==
  \E v \in MetricsService_calculate_xg_delta_psm(passes, shots, events,
                                                player_id, team_id, game_id) :
    MetricsCall("xg_delta_psm", player_id, team_id, game_id, v)

get_shot_metrics(player_id, team_id, game_id) ==
  MetricsCall("shot_metrics", player_id, team_id, game_id,
              MetricsService_calculate_shot_metrics(shots, events, player_id,
                                                    team_id, game_id))

get_player_metrics(player_id) ==
  MetricsCall("player_metrics", player_id, None, None,
              MetricsService_calculate_player_metrics(player_id))

\* ------------------------------------------------------------------------
\* app/api/api.py, app/api/endpoints/teams.py, app/crud/teams.py
\* ------------------------------------------------------------------------
\* the routers api.py includes in api_router, which main.py serves at /api
IncludedRouters == {"stats"}

\* crud: the rows with the external team_id, of which first() gives one;
\* the empty set stands for its None
get_team_by_team_id(t, team_id) == {r \in t : r.team_id = team_id}

\* crud: the table after create_team
crud_create_team(t, team_id, name) == t \cup {[team_id |-> team_id, name |-> name]}

\* crud: the table after update_team; the fields of TeamUpdate leave team_id
crud_update_team(t, team_id, name) ==
  {IF r.team_id = team_id THEN [r EXCEPT !.name = name] ELSE r : r \in t}

\* crud: the table after delete_team
crud_delete_team(t, team_id) == {r \in t : r.team_id # team_id}

\* the answer to one request
Reply(op, via, team_id, status, body) ==
  [op |-> op, seq |-> response.seq + 1, via |-> via, team_id |-> team_id,
   status |-> status, body |-> body]

\* a request arrives either at the application of main.py, which looks the
\* path up among the included routers, or at the router of teams.py itself
Served(via) == via = "router" \/ "teams" \in IncludedRouters

TeamsRequest ==
  /\ response.seq < MaxRequests
  /\ UNCHANGED <<feed, events, shots, entries, passes, recoveries, pstats,
                 tstats, run, trace, settled, nruns, napi, imp>>

\* GET /api/teams/{team_id}
get_team(via, team_id) ==
  /\ TeamsRequest
  /\ IF ~Served(via)
     THEN response' = Reply("get_team", via, team_id, 404, "")
     ELSE IF get_team_by_team_id(teams, team_id) = {}
     THEN response' = Reply("get_team", via, team_id, 404, "")
     ELSE \E db_team \in get_team_by_team_id(teams, team_id) :
            response' = Reply("get_team", via, team_id, 200, db_team.name)
  /\ UNCHANGED <<teams, created>>

\* POST /api/teams/
create_team(via, team_id, name) ==
  /\ TeamsRequest
  /\ created' = created \cup {team_id}
  /\ IF ~Served(via)
     THEN /\ response' = Reply("create_team", via, team_id, 404, "")
          /\ UNCHANGED teams
     ELSE IF get_team_by_team_id(teams, team_id) # {}
     THEN /\ response' = Reply("create_team", via, team_id, 400, "")
          /\ UNCHANGED teams
     ELSE /\ teams' = crud_create_team(teams, team_id, name)
          /\ response' = Reply("create_team", via, team_id, 200, name)

\* PUT /api/teams/{team_id}
update_team(via, team_id, name) ==
  /\ TeamsRequest
  /\ IF ~Served(via)
     THEN /\ response' = Reply("update_team", via, team_id, 404, "")
          /\ UNCHANGED teams
     ELSE IF get_team_by_team_id(teams, team_id) = {}
     THEN /\ response' = Reply("update_team", via, team_id, 404, "")
          /\ UNCHANGED teams
     ELSE /\ teams' = crud_update_team(teams, team_id, name)
          /\ response' = Reply("update_team", via, team_id, 200, name)
  /\ UNCHANGED created

\* DELETE /api/teams/{team_id}
delete_team(via, team_id) ==
  /\ TeamsRequest
  /\ created' = created \ {team_id}
  /\ IF ~Served(via)
     THEN /\ response' = Reply("delete_team", via, team_id, 404, "")
          /\ UNCHANGED teams
     ELSE IF get_team_by_team_id(teams, team_id) = {}
     THEN /\ response' = Reply("delete_team", via, team_id, 404, "")
          /\ UNCHANGED teams
     ELSE /\ teams' = crud_delete_team(teams, team_id)
          /\ response' = Reply("delete_team", via, team_id, 200, "")

\* ------------------------------------------------------------------------
\* app/processing/event_processor.py: formation detection
\* ------------------------------------------------------------------------
\* sum(1 for c in coords if ...) for the three areas of the attacking end;
\* a coordinate pair is <<x, y>>
RECURSIVE CountIn(_, _)
CountIn(area, coords) ==
  IF coords = <<>> THEN 0
  ELSE LET x == Head(coords)[1]
           y == Head(coords)[2]
           hit == CASE area = "point" -> x > 60
                    [] area = "wing" -> x <= 60 /\ (y < 30 \/ y > 60)
                    [] area = "slot" -> x <= 60 /\ y >= 30 /\ y <= 60
       IN (IF hit THEN 1 ELSE 0) + CountIn(area, Tail(coords))

\* sum(1 for src, dst in pass_events if ...): src is the pass event's
\* <<x, y>>, dst the recipient event's
RECURSIVE CountPasses(_, _)
CountPasses(kind, pass_events) ==
  IF pass_events = <<>> THEN 0
  ELSE LET src == Head(pass_events)[1]
           dst == Head(pass_events)[2]
           from_point == src[1] > 60
           from_wing == src[2] < 30 \/ src[2] > 60
           to_wing == dst[2] < 30 \/ dst[2] > 60
           to_slot == dst[2] >= 30 /\ dst[2] <= 60
           hit == CASE kind = "point_to_wing" -> from_point /\ to_wing
                    [] kind = "wing_to_wing" -> from_wing /\ to_wing
                    [] kind = "wing_to_slot" -> from_wing /\ to_slot
                    [] kind = "point_to_slot" -> from_point /\ to_slot
       IN (IF hit THEN 1 ELSE 0) + CountPasses(kind, Tail(pass_events))

\* a comparison of the pass counts meets a None coordinate: the source's x
\* or y, or the destination's y once the source test before it is true
ComparesNone(pass_events) ==
  \E i \in 1..Len(pass_events) :
    LET src == pass_events[i][1]
        dst == pass_events[i][2]
    IN \/ src[1] = None
       \/ src[2] = None
       \/ (dst[2] = None /\ (src[1] > 60 \/ src[2] < 30 \/ src[2] > 60))

\* _detect_pp_formation on what its queries gave: whether the game was
\* found, whether the team has power-play events, the coordinates of the
\* power-play shots that have both, and the pass and recipient events
_detect_pp_formation(game, pp_events, shot_coords, pass_events) ==
  IF ~game THEN "1-3-1"
  ELSE IF ~pp_events THEN "1-3-1"
  ELSE IF ComparesNone(pass_events) THEN "TypeError"
  ELSE LET point_shots == CountIn("point", shot_coords)
           wing_shots == CountIn("wing", shot_coords)
           slot_shots == CountIn("slot", shot_coords)
           point_to_wing == CountPasses("point_to_wing", pass_events)
           wing_to_wing == CountPasses("wing_to_wing", pass_events)
           wing_to_slot == CountPasses("wing_to_slot", pass_events)
           point_to_slot == CountPasses("point_to_slot", pass_events)
       IN IF point_shots > wing_shots /\ point_to_slot > wing_to_slot
          THEN "UMBRELLA"
          ELSE IF wing_shots > point_shots /\ wing_to_slot > point_to_slot
          THEN "OVERLOAD"
          ELSE IF wing_to_wing > point_to_wing /\ wing_to_wing > wing_to_slot
          THEN "SPREAD"
          ELSE IF slot_shots > wing_shots /\ slot_shots > point_shots
          THEN "DIAMOND_PLUS_ONE"
          ELSE "1-3-1"

\* the coordinates of the events of the given type that have both
RECURSIVE CoordsOfType(_, _)
CoordsOfType(event_type, evs) ==
  IF evs = <<>> THEN <<>>
  ELSE LET e == Head(evs)
       IN (IF e.event_type = event_type /\ e.x # None /\ e.y # None
           THEN <<(<<e.x, e.y>>)>> ELSE <<>>)
          \o CoordsOfType(event_type, Tail(evs))

\* _detect_pk_formation on what its queries gave: whether the game was
\* found, the team's short-handed events, and the coordinates of the
\* opponent's power-play shots that have both; the percentages are
\* compared as fractions of total_shots
_detect_pk_formation(game, pk_events, shot_coords) ==
  IF ~game THEN "BOX"
  ELSE IF pk_events = <<>> THEN "BOX"
  ELSE LET point_shots == CountIn("point", shot_coords)
           wing_shots == CountIn("wing", shot_coords)
           slot_shots == CountIn("slot", shot_coords)
           block_coords == CoordsOfType("block", pk_events)
           point_blocks == CountIn("point", block_coords)
           slot_blocks == CountIn("slot", block_coords)
           pk_takeaways == Len(SelectSeq(pk_events,
                                 LAMBDA e : e.event_type = "takeaway"))
           total_shots == Len(shot_coords)
       IN IF total_shots = 0 THEN "BOX"
          ELSE IF 100 * slot_shots < 15 * total_shots /\ slot_blocks > point_blocks
          THEN "DIAMOND"
          ELSE IF 2 * point_shots > total_shots /\ pk_takeaways < 2
          THEN "BOX"
          ELSE IF 5 * wing_shots < total_shots /\ pk_takeaways > 3
          THEN "WEDGE_PLUS_ONE"
          ELSE "PASSIVE_TRIANGLE"

\* ------------------------------------------------------------------------
\* Inputs and specifications
\* ------------------------------------------------------------------------
PlaysOf(games, types, periods, times, xs, players) ==
  {[game |-> g, type |-> ty, period |-> pe, time |-> t, x |-> x,
    player |-> pl, team |-> PlayerTeam(pl), recipient |-> None] :
     g \in games, ty \in types, pe \in periods, t \in times, x \in xs,
     pl \in players}

\* PASS plays of game 1: the passer and the second participant of the play
PassPlaysOf(periods, times, passers, recipients) ==
  {[game |-> 1, type |-> "PASS", period |-> pe, time |-> t, x |-> 50,
    player |-> pl, team |-> PlayerTeam(pl), recipient |-> r] :
     pe \in periods, t \in times, pl \in passers, r \in recipients}

InitWith(plays) ==
  /\ feed = plays
  /\ events = {}
  /\ shots = {}
  /\ entries = {}
  /\ passes = {}
  /\ recoveries = {}
  /\ pstats = {}
  /\ tstats = {}
  /\ run = Idle
  /\ trace = <<>>
  /\ settled = {}
  /\ nruns = 0
  /\ napi = 0
  /\ response = NoResponse
  /\ imp = NoImport
  /\ teams = {}
  /\ created = {}

process_game ==
  \/ \E g \in Games : StartGame(g)
  \/ ClassifyEvent
  \/ _calculate_player_stats
  \/ _calculate_team_stats

\* one game, shots, recoveries and inferred entries
Plays == PlaysOf({1}, {"goal", "takeaway", "pass"}, {1}, {0, 2}, {50}, {1, 2})
           \cup PlaysOf({1}, {"GOAL"}, {1}, {0}, {50}, {1})

Init == InitWith(Plays)
Next == import_game_events \/ process_game \/ calculate_stats
Spec == Init /\ [][Next]_vars

\* one game, explicit entries from the feed and from stored events, and the
\* shots that may follow them
EntryPlays == PlaysOf({1}, {"ZONE-ENTRY", "zone-entry", "shot-on-goal"}, {1},
                      {0, 6, 11}, {50}, {1, 2})
InitEntry == InitWith(EntryPlays)
SpecEntry == InitEntry /\ [][Next]_vars

\* two games of the same two teams
GamePlays == PlaysOf({1, 2}, {"TAKEAWAY", "zone-entry", "goal"}, {1}, {0, 6},
                     {50}, {1})
InitGames == InitWith(GamePlays)
SpecGames == InitGames /\ [][Next]_vars

\* one game, passes of player 1 (to nobody, to a stranger, to team-mate 3)
\* and the goals that may follow them
PassPlays == PassPlaysOf({1}, {0, 2}, {1}, {None, Unknown, 3})
               \cup PlaysOf({1}, {"GOAL"}, {1}, {2, 4}, {50}, {3, 2})
               \cup PlaysOf({1}, {"goal"}, {1}, {2}, {50}, {3})
InitPass == InitWith(PassPlays)
SpecPass == InitPass /\ [][Next]_vars

\* ------------------------------------------------------------------------
\* app/services/sequence_service.py and app/api/endpoints/sequences.py
\* ------------------------------------------------------------------------
MaxPasses == 4

\* the passes detect_cycles loads: completed Offensive-zone passes joined to
\* the events of the game and the team
CyclePasses(game_key, team_id) ==
  {p \in passes : /\ p.zone = "OZ" /\ p.completed
                  /\ \E e \in events : /\ e.id = p.event_id
                                      /\ e.game_id = game_key
                                      /\ e.team_id = team_id}

\* order_by(GameEvent.period, GameEvent.time_elapsed): the orders the query
\* may return, as sequences of Pass ids
OrderedPasses(P) ==
  LET n == Cardinality(P)
      ids == {p.id : p \in P}
      row(id) == EventById(events, (CHOOSE p \in P : p.id = id).event_id)
  IN {q \in [1..n -> ids] :
        /\ \A i, j \in 1..n : i # j => q[i] # q[j]
        /\ \A i, j \in 1..n : i < j => KeyLeq(row(q[i]), row(q[j]), TRUE)}

\* the loop of detect_cycles from index i on, and the flush after it
RECURSIVE cycle_loop(_, _, _, _)
cycle_loop(q, i, cycles, current_cycle) ==
  LET ended == IF Len(current_cycle) >= 3 THEN Append(cycles, current_cycle)
               ELSE cycles
      event(id) == EventById(events, (CHOOSE p \in passes : p.id = id).event_id)
  IN IF i > Len(q) - 1 THEN ended
     ELSE IF event(q[i]).period # event(q[i + 1]).period
     THEN cycle_loop(q, i + 1, ended, <<>>)
     ELSE IF event(q[i + 1]).time_elapsed - event(q[i]).time_elapsed <= 4
     THEN cycle_loop(q, i + 1, cycles,
                     (IF current_cycle = <<>> THEN <<q[i]>> ELSE current_cycle)
                       \o <<q[i + 1]>>)
     ELSE cycle_loop(q, i + 1, ended, <<>>)

\* detect_cycles(db, game_id, team_id): the function is declared in the class
\* without self, so its first parameter is whatever the call binds first.
\* The results it may give: AttributeError when db has no query attribute.
detect_cycles(db, game_key, team_id) ==
  IF db # "Session" THEN {"AttributeError"}
  ELSE {cycle_loop(q, 1, <<>>, <<>>) :
          q \in OrderedPasses(CyclePasses(game_key, team_id))}

\* get_cycle_sequences: 404 for an unknown game; otherwise the bound call
\* sequence_service.detect_cycles(game_id=..., team_id=...), which binds the
\* SequenceService instance to db
get_cycle_sequences(game_key, team_id) ==
  /\ Quiet
  /\ IF GameByKey(game_key) = None
     THEN response' = [op |-> "cycles", seq |-> 1, status |-> 404,
                       team_id |-> team_id, body |-> "Game not found"]
     ELSE \E r \in detect_cycles("SequenceService", game_key, team_id) :
            response' = [op |-> "cycles", seq |-> 1, team_id |-> team_id,
                         status |-> IF r = "AttributeError" THEN 500 ELSE 200,
                         body |-> r]
  /\ UNCHANGED <<feed, events, shots, entries, passes, recoveries, pstats,
                 tstats, run, trace, settled, nruns, napi, imp, teams,
                 created>>

\* the passes a feed may hold: each pass follows the previous one after dt
\* seconds or opens the next period
PassKinds ==
  {[dt |-> dt, next_period |-> FALSE, player |-> 1, x |-> 50, recipient |-> 3] :
     dt \in {2, 4, 5}}
  \cup {[dt |-> 0, next_period |-> TRUE, player |-> 1, x |-> 50, recipient |-> 3],
        [dt |-> 2, next_period |-> FALSE, player |-> 2, x |-> 50, recipient |-> 1],
        [dt |-> 2, next_period |-> FALSE, player |-> 1, x |-> 0, recipient |-> 3],
        [dt |-> 2, next_period |-> FALSE, player |-> 1, x |-> 50,
         recipient |-> Unknown]}

PassFeeds == UNION {[1..n -> PassKinds] : n \in 0..MaxPasses}

\* period and time of the i-th play of a feed
RECURSIVE PeriodAt(_, _)
PeriodAt(q, i) ==
  IF i = 0 THEN 1
  ELSE PeriodAt(q, i - 1) + (IF q[i].next_period THEN 1 ELSE 0)
RECURSIVE TimeAt(_, _)
TimeAt(q, i) ==
  IF i = 0 THEN 0
  ELSE IF q[i].next_period THEN 0 ELSE TimeAt(q, i - 1) + q[i].dt

\* the rows process_event and _process_pass store for the feed, in order
EventsOfFeed(q) ==
  {[id |-> i, game_id |-> GameKey(1), event_type |-> "PASS",
    period |-> PeriodAt(q, i), time_elapsed |-> TimeAt(q, i),
    x_coordinate |-> q[i].x, player_id |-> q[i].player,
    team_id |-> PlayerTeam(q[i].player)] : i \in 1..Len(q)}

RECURSIVE PassesUpTo(_, _)
PassesUpTo(q, i) ==
  IF i = 0 THEN {}
  ELSE LET ps == PassesUpTo(q, i - 1)
       IN ps \cup {process_pass(ps, EventById(EventsOfFeed(q), i),
                                _determine_zone(q[i].x), q[i].player,
                                IF q[i].recipient \in Players
                                THEN q[i].recipient ELSE None,
                                q[i].recipient \in Players)}
PassesOfFeed(q) == PassesUpTo(q, Len(q))

InitSeq ==
  /\ \E q \in PassFeeds : /\ events = EventsOfFeed(q)
                          /\ passes = PassesOfFeed(q)
  /\ feed = {}
  /\ shots = {}
  /\ entries = {}
  /\ recoveries = {}
  /\ pstats = {}
  /\ tstats = {}
  /\ run = Idle
  /\ trace = <<>>
  /\ settled = {}
  /\ nruns = 0
  /\ napi = 0
  /\ response = NoResponse
  /\ imp = NoImport
  /\ teams = {}
  /\ created = {}
NextSeq == \E g \in Games \cup {3}, t \in {1, 2} :
             get_cycle_sequences(GameKey(g), t)
SpecSeq == InitSeq /\ [][NextSeq]_vars

\* two games, the engine, the entries endpoint and the metrics service
MetricsPlays ==
  PlaysOf({1, 2}, {"zone-entry", "goal"}, {1}, {0, 6}, {50}, {1})
    \cup PlaysOf({1}, {"TAKEAWAY"}, {1}, {0}, {50}, {1})
    \cup PassPlaysOf({1}, {4}, {1}, {3})
InitMetrics == InitWith(MetricsPlays)
\* the scopes a metric is asked for
ScopePlayers == {None, 1}
ScopeTeams == {None, 1}
ScopeGames == {None, GameKey(1), GameKey(2)}
NextMetrics ==
  \/ import_game_events
  \/ process_game
  \/ \E id \in 1..MaxEvents, controlled, lead_to_shot \in BOOLEAN :
        create_entry(id, controlled, lead_to_shot,
                     IF lead_to_shot THEN 6 ELSE None)
  \/ \E p \in ScopePlayers, t \in ScopeTeams, g \in ScopeGames : get_ecr(p, t, g)
  \/ \E p \in ScopePlayers, t \in ScopeTeams, g \in ScopeGames : get_pri(p, t, g)
  \/ \E p \in ScopePlayers, t \in ScopeTeams, g \in ScopeGames : get_pdi(p, t, g)
  \/ \E p \in ScopePlayers, t \in ScopeTeams, g \in ScopeGames :
        get_xg_delta_psm(p, t, g)
  \/ \E p \in ScopePlayers, t \in ScopeTeams, g \in ScopeGames :
        get_shot_metrics(p, t, g)
  \/ \E p \in Players \cup {Unknown} : get_player_metrics(p)
SpecMetrics == InitMetrics /\ [][NextMetrics]_vars

\* one import of a game whose plays may lack their type, period or time
ImportPlays ==
  PlaysOf({1}, {"GOAL", "TAKEAWAY", "faceoff", NoType}, {1}, {0, 6}, {50}, {1})
    \cup PlaysOf({1}, {"GOAL"}, {None}, {0}, {50}, {1})
    \cup PlaysOf({1}, {"GOAL"}, {1}, {None}, {50}, {1})
PlaySeqs == UNION {[1..n -> ImportPlays] : n \in 1..MaxEvents}
InitImport == InitWith(ImportPlays)
NextImport ==
  \/ \E q \in PlaySeqs : fetch_plays(q)
  \/ import_loop
SpecImport == InitImport /\ [][NextImport]_vars

\* ------------------------------------------------------------------------
\* the expected-goal value of one shot, by either classifier
\* ------------------------------------------------------------------------
\* distance (feet) and angle (degrees) of shots from (88,0), (80,0),
\* (60,30), (0,0), (-10,0), (-10,42) and (89,10), rounded; from (89,10) the
\* ingestion classifier leaves the angle None, the processing one takes 90;
\* and a shot without coordinates
ShotGeometry ==
  {<<1, 0>>, <<9, 0>>, <<42, 46>>, <<89, 0>>, <<99, 0>>, <<108, 23>>,
   <<10, 90>>, <<10, None>>, <<None, None>>}
ImportShotTypes == {"Slap Shot", "Wrist Shot", "Tip-In", "Backhand", "Other"}
ShotTypes == {"wrist_shot", "Slap Shot", "Tip-In", "TIP_IN", "backhand"}
Situations == {"EV", "PP", "SH"}

\* the shot whose xG is asked for: by the ingestion classifier with the
\* row's flags and the event's situation code, or by the processing one
XgInputs ==
  {[op |-> "shot", seq |-> 0, by |-> "import", distance |-> g[1],
    angle |-> g[2], shot_type |-> ty, rush_shot |-> ru, rebound_shot |-> re,
    situation_code |-> si] :
     g \in ShotGeometry, ty \in ImportShotTypes, ru \in BOOLEAN,
     re \in BOOLEAN, si \in Situations}
  \cup
  {[op |-> "shot", seq |-> 0, by |-> "processing", distance |-> g[1],
    angle |-> g[2], shot_type |-> ty, rush_shot |-> FALSE,
    rebound_shot |-> FALSE, situation_code |-> "EV"] :
     g \in ShotGeometry, ty \in ShotTypes}

InitXg ==
  /\ response \in XgInputs
  /\ feed = {}
  /\ events = {}
  /\ shots = {}
  /\ entries = {}
  /\ passes = {}
  /\ recoveries = {}
  /\ pstats = {}
  /\ tstats = {}
  /\ run = Idle
  /\ trace = <<>>
  /\ settled = {}
  /\ nruns = 0
  /\ napi = 0
  /\ imp = NoImport
  /\ teams = {}
  /\ created = {}

\* the xg= argument of the ShotEvent row
calculate_xg ==
  /\ response.op = "shot"
  /\ response' =
       [op |-> "xg", seq |-> 1, by |-> response.by,
        distance |-> response.distance, angle |-> response.angle,
        body |-> IF response.by = "import"
                 THEN import_calculate_xg(response.distance, response.angle,
                        response.shot_type, response.rush_shot,
                        response.rebound_shot, response.situation_code)
                 ELSE _calculate_xg(response.distance, response.angle,
                                    response.shot_type)]
  /\ UNCHANGED <<feed, events, shots, entries, passes, recoveries, pstats,
                 tstats, run, trace, settled, nruns, napi, imp, teams,
                 created>>
SpecXg == InitXg /\ [][calculate_xg]_vars

\* x coordinates around the blue lines and centre ice, and a missing one
XCoords == {None} \cup ((0 - 27)..(0 - 23)) \cup {0 - 10, 0, 10} \cup (23..27)
\* the places of the repository that put an event into a zone
ZonePlaces == {"_determine_zone", "engine_zone", "determine_zone",
               "_is_rush_entry"}
\* an event's coordinate on its way into one of the places; _is_rush_entry
\* passes over an event without coordinate
ZoneInputs ==
  {[op |-> "x", seq |-> 0, place |-> pl, x |-> x] :
     pl \in ZonePlaces \ {"_is_rush_entry"}, x \in XCoords}
  \cup
  {[op |-> "x", seq |-> 0, place |-> "_is_rush_entry", x |-> x] :
     x \in XCoords \ {None}}

InitZone ==
  /\ response \in ZoneInputs
  /\ feed = {}
  /\ events = {}
  /\ shots = {}
  /\ entries = {}
  /\ passes = {}
  /\ recoveries = {}
  /\ pstats = {}
  /\ tstats = {}
  /\ run = Idle
  /\ trace = <<>>
  /\ settled = {}
  /\ nruns = 0
  /\ napi = 0
  /\ imp = NoImport
  /\ teams = {}
  /\ created = {}

\* the place computes the zone of the coordinate
classify_zone ==
  /\ response.op = "x"
  /\ response' =
       [op |-> "zone", seq |-> 1, place |-> response.place, x |-> response.x,
        body |-> CASE response.place = "_determine_zone" ->
                        _determine_zone(response.x)
                   [] response.place = "engine_zone" ->
                        engine_zone(response.x)
                   [] response.place = "determine_zone" ->
                        determine_zone(response.x)
                   [] response.place = "_is_rush_entry" ->
                        rush_origin_zone(response.x)]
  /\ UNCHANGED <<feed, events, shots, entries, passes, recoveries, pstats,
                 tstats, run, trace, settled, nruns, napi, imp, teams,
                 created>>
SpecZone == InitZone /\ [][classify_zone]_vars

\* the team_ids and names of the requests, and where a request arrives
TeamIds == {3, 4}
TeamNames == {"Boston Bruins", "New York Rangers"}
Vias == {"app", "router"}
InitTeams == InitWith({})
NextTeams ==
  \E via \in Vias, team_id \in TeamIds, name \in TeamNames :
    \/ get_team(via, team_id)
    \/ create_team(via, team_id, name)
    \/ update_team(via, team_id, name)
    \/ delete_team(via, team_id)
SpecTeams == InitTeams /\ [][NextTeams]_vars

\* hits and passes of one period in the neutral and the offensive zone
InferPlays == PlaysOf({1}, {"hit", "pass"}, {1}, {0, 2}, {0, 50}, {1, 2})
InitInfer == InitWith(InferPlays)
SpecInfer == InitInfer /\ [][Next]_vars

\* shots and hits of both teams in the three zones, two or four seconds apart
RushPlays == PlaysOf({1}, {"shot-on-goal", "hit"}, {1}, {0, 2, 4},
                     {0 - 50, 0, 50}, {1, 2})
InitRush == InitWith(RushPlays)
SpecRush == InitRush /\ [][Next]_vars

\* shots and hits with and without coordinates, two seconds apart
NoCoordPlays == PlaysOf({1}, {"shot-on-goal", "hit"}, {1}, {0, 2}, {None, 0},
                        {1, 2})
InitNoCoord == InitWith(NoCoordPlays)
SpecNoCoord == InitNoCoord /\ [][Next]_vars

\* a spot at the point, on the wing and in the slot
ShotSpots == {<<70, 40>>, <<50, 10>>, <<50, 40>>}
\* the sequences of at most n elements of S
SeqsUpTo(S, n) == UNION {[1..k -> S] : k \in 0..n}
\* pass and recipient events, the recipient's possibly without y
PassPairs == {<<src, dst>> : src \in ShotSpots,
                            dst \in ShotSpots \cup {<<50, None>>}}
\* short-handed events of the team: blocks in the slot and at the point,
\* a takeaway and a hit
PkEvents == {[event_type |-> "block", x |-> 50, y |-> 40],
             [event_type |-> "block", x |-> 70, y |-> 40],
             [event_type |-> "takeaway", x |-> 50, y |-> 40],
             [event_type |-> "hit", x |-> None, y |-> None]}
FormationInputs ==
  {[op |-> "pp", seq |-> 0, game |-> g, pp_events |-> pe, shot_coords |-> sc,
    pass_events |-> pa] :
     g \in BOOLEAN, pe \in BOOLEAN, sc \in SeqsUpTo(ShotSpots, 2),
     pa \in SeqsUpTo(PassPairs, 1)}
  \cup
  {[op |-> "pk", seq |-> 0, game |-> g, pk_events |-> pk, shot_coords |-> sc] :
     g \in BOOLEAN, pk \in SeqsUpTo(PkEvents, 2),
     sc \in SeqsUpTo(ShotSpots, 2)}

InitFormation ==
  /\ response \in FormationInputs
  /\ feed = {}
  /\ events = {}
  /\ shots = {}
  /\ entries = {}
  /\ passes = {}
  /\ recoveries = {}
  /\ pstats = {}
  /\ tstats = {}
  /\ run = Idle
  /\ trace = <<>>
  /\ settled = {}
  /\ nruns = 0
  /\ napi = 0
  /\ imp = NoImport
  /\ teams = {}
  /\ created = {}

\* the formation the detector returns for the query results
detect_formation ==
  /\ response.op \in {"pp", "pk"}
  /\ response' =
       [op |-> "formation", seq |-> 1, of |-> response,
        body |-> IF response.op = "pp"
                 THEN _detect_pp_formation(response.game, response.pp_events,
                        response.shot_coords, response.pass_events)
                 ELSE _detect_pk_formation(response.game, response.pk_events,
                        response.shot_coords)]
  /\ UNCHANGED <<feed, events, shots, entries, passes, recoveries, pstats,
                 tstats, run, trace, settled, nruns, napi, imp, teams,
                 created>>
SpecFormation == InitFormation /\ [][detect_formation]_vars

\* ------------------------------------------------------------------------
\* check.py: process_all_games, one process_game per game
\* ------------------------------------------------------------------------
MaxBatches == 2         \* process_all_games invocations
\* db.query(Game).all(): the games in an order the database chooses
GameOrders ==
  {q \in [1..Cardinality(Games) -> Games] :
     \A i, j \in 1..Cardinality(Games) : i # j => q[i] # q[j]}

\* lines 8-13: the session, the processor and the list of games; prev keeps
\* what the invocation before printed for each game
process_all_games_start ==
  /\ Quiet
  /\ response.op \in {"none", "batch"}
  /\ response.op = "batch" => response.pc = "done"
  /\ response.seq < MaxBatches
  /\ \E games \in GameOrders :
       response' = [op |-> "batch", seq |-> response.seq + 1, pc |-> "loop",
                    games |-> games, outcome |-> <<>>,
                    prev |-> IF response.op = "batch"
                             THEN {<<response.games[i], response.outcome[i]>> :
                                     i \in 1..Len(response.games)}
                             ELSE {}]
  /\ UNCHANGED <<feed, events, shots, entries, passes, recoveries, pstats,
                 tstats, run, trace, settled, nruns, napi, imp, teams,
                 created>>

\* lines 16-21: the next game of the list enters process_game
process_all_games_try ==
  /\ response.op = "batch"
  /\ response.pc = "loop"
  /\ Quiet
  /\ LET game == response.games[Len(response.outcome) + 1]
     IN \E q \in OrderedIds(GameEvents(events, GameKey(game))) :
          run' = [pc |-> "classify", game_id |-> GameKey(game), queue |-> q,
                  stats |-> Counters(Len(q)), team_id |-> None, ecr |-> None,
                  pri |-> None, pdi |-> None]
  /\ nruns' = nruns + 1
  /\ response' = [response EXCEPT !.pc = "try"]
  /\ UNCHANGED <<feed, events, shots, entries, passes, recoveries, pstats,
                 tstats, trace, settled, napi, imp, teams, created>>

\* lines 22-30: process_game returned its counters, which are printed, or
\* raised an exception, which "except Exception" catches and prints; after
\* the last game lines 32-40 print the counts and close the session
process_all_games_next ==
  /\ response.op = "batch"
  /\ response.pc = "try"
  /\ run.pc \in {"done", "failed"}
  /\ response' = [response EXCEPT
                    !.outcome = Append(response.outcome, run.pc),
                    !.pc = IF Len(response.outcome) + 1 = Len(response.games)
                           THEN "done" ELSE "loop"]
  /\ UNCHANGED <<feed, events, shots, entries, passes, recoveries, pstats,
                 tstats, run, trace, settled, nruns, napi, imp, teams,
                 created>>

process_all_games ==
  \/ process_all_games_start
  \/ process_all_games_try
  \/ ClassifyEvent
  \/ _calculate_player_stats
  \/ _calculate_team_stats
  \/ process_all_games_next

\* two games, events with and without a player; calculate_stats.py may run
\* between two games and between two invocations
BatchPlays == PlaysOf({1, 2}, {"goal", "hit"}, {1}, {0}, {50}, {None, 1})
InitBatch == InitWith(BatchPlays)
NextBatch == import_game_events \/ process_all_games \/ calculate_stats
SpecBatch == InitBatch /\ [][NextBatch]_vars
\* the steps of an invocation are taken while they are possible
SpecBatchFair == SpecBatch /\ WF_vars(process_all_games)

\* ------------------------------------------------------------------------
\* PRI at ingestion: process_recovery with each zone, type and outcome
\* ------------------------------------------------------------------------
\* data_import process_recovery (lines 839-871) for a stored event of a
\* player: the recovery row with the arguments as given, then
\* _update_player_pri with the same arguments
call_process_recovery(zone, recovery_type, lead_to_possession) ==
  /\ Quiet
  /\ \E e \in events :
       /\ e.player_id # None
       /\ ~ \E r \in recoveries : r.event_id = e.id
       /\ \E prec \in _get_preceding_event_id(events, e, 5) :
            recoveries' = recoveries \cup
              {[process_recovery(e, prec) EXCEPT
                  !.zone = zone, !.recovery_type = recovery_type,
                  !.lead_to_possession = lead_to_possession]}
       /\ pstats' = _update_player_pri(pstats, e.game_id, e.player_id, zone,
                                       recovery_type, lead_to_possession)
       /\ trace' = Log(0, "recovery", e.id, TRUE)
  /\ UNCHANGED <<rest, feed, events, shots, entries, passes, tstats, run,
                 settled, nruns, napi>>

\* two players in one game, one of them in a second game too
PriPlays == PlaysOf({1}, {"hit"}, {1}, {0}, {50}, {1, 2})
              \cup PlaysOf({2}, {"hit"}, {1}, {0}, {50}, {1})
InitPri == InitWith(PriPlays)
NextPri ==
  \/ import_game_events
  \/ \E zone \in {"OZ", "NZ", "DZ"},
        recovery_type \in {"takeaway", "forecheck", "loose"},
        lead_to_possession \in BOOLEAN :
       call_process_recovery(zone, recovery_type, lead_to_possession)
SpecPri == InitPri /\ [][NextPri]_vars

\* two periods whose clocks overlap: shots, recoveries and entries of one
\* team at 0 s and 2 s of either period
PeriodPlays == PlaysOf({1}, {"shot-on-goal", "takeaway", "zone-entry"}, {1, 2}, {0, 2}, {50}, {1})
InitPeriod == InitWith(PeriodPlays)
SpecPeriod == InitPeriod /\ [][Next]_vars

\* the engine next to the REST layer
ApiPlays == PlaysOf({1}, {"goal", "zone-entry"}, {1}, {0, 6}, {50}, {1})
InitApi == InitWith(ApiPlays)
NextApi ==
  \/ import_game_events
  \/ process_game
  \/ \E id \in 1..MaxEvents : update_event(id)
  \/ \E id \in 1..MaxEvents, controlled, lead_to_shot \in BOOLEAN,
        lead_to_shot_time \in {None, 6, 11} :
        create_entry(id, controlled, lead_to_shot, lead_to_shot_time)
SpecApi == InitApi /\ [][NextApi]_vars

\* shots, blocked shots and hits of one period, two or four seconds apart
ReboundPlays == PlaysOf({1}, {"shot-on-goal", "blocked-shot", "hit"}, {1},
                        {0, 2, 4}, {50}, {1, 2})
InitRebound == InitWith(ReboundPlays)
SpecRebound == InitRebound /\ [][Next]_vars

\* ------------------------------------------------------------------------
\* Properties
\* ------------------------------------------------------------------------
RowsOf(table, id) == {r \in table : r.event_id = id}

\* C1: after any sequence of ingestions and process_game runs, every stored
\* event has at most one ShotEvent, at most one ZoneEntry, at most one Pass
\* and at most one PuckRecovery; classifying an event again adds nothing.
C1_AtMostOneDerivedRecord ==
  \A e \in events :
    /\ Cardinality(RowsOf(shots, e.id)) <= 1
    /\ Cardinality(RowsOf(entries, e.id)) <= 1
    /\ Cardinality(RowsOf(passes, e.id)) <= 1
    /\ Cardinality(RowsOf(recoveries, e.id)) <= 1

\* a later run has called a classifier again on an event whose record an
\* earlier call had inserted
C1_ClassifiedTwice ==
  \E i, j \in DOMAIN trace :
    /\ i < j
    /\ trace[i].event = trace[j].event
    /\ trace[i].op = trace[j].op
    /\ trace[i].inserted
    /\ trace[i].run < trace[j].run

\* C2: when process_game runs on a game whose loop has already run to its
\* end on the same stored events, no step of the new run inserts, changes or
\* removes a ShotEvent, ZoneEntry, Pass or PuckRecovery.
C2_RerunIsNoOp ==
  [][(~Quiet /\ run.game_id \in settled) => UNCHANGED derived]_vars

\* a rerun on an already processed game has gone through all its events, and
\* the game has derived records
C2_RerunFinishedLoop ==
  /\ run.pc = "classify"
  /\ run.game_id \in settled
  /\ run.queue = <<>>
  /\ run.stats.total_events >= 2
  /\ \E e \in GameEvents(events, run.game_id) :
        RowsOf(shots, e.id) \cup RowsOf(recoveries, e.id) # {}

\* C8: no step of process_game adds, removes or changes a GameEvent.
C8_EventsUntouched == [][run' # run => events' = events]_vars

\* a run has classified a shot and left its loop
C8_RunClassified ==
  /\ run.pc \in {"teams", "done", "failed"}
  /\ run.queue = <<>>
  /\ run.stats.shots_processed >= 1

\* the aggregates of one game computed from that game's records alone: the
\* metric with its game found by primary key, so that the game filter is on
FreshEcr(player_id, team_id, g) == calculate_ecr(entries, events, player_id, team_id, g)
FreshPri(player_id, team_id, g) == calculate_pri(recoveries, events, player_id, team_id, g)

\* C3: when process_game has returned, every aggregate of its game equals a
\* fresh computation over the game's current records: both teams have a
\* TeamGameStats row holding the fresh team ECR and PRI, and every player of
\* the game has a PlayerGameStats row holding the fresh ECR and PRI.
C3_AggregatesAreFresh ==
  run.pc = "done" =>
    LET g == GameByKey(run.game_id)
    IN /\ \A t \in {home_team_id(g), away_team_id(g)} :
            \E s \in tstats : /\ s.game_id = g
                              /\ s.team_id = t
                              /\ s.team_ecr = FreshEcr(None, t, g)
                              /\ s.team_pri = FreshPri(None, t, g)
       /\ \A p \in {e.player_id : e \in GameEvents(events, run.game_id)} \ {None} :
            \E s \in pstats : /\ s.game_id = g
                              /\ s.player_id = p
                              /\ s.ecr = FreshEcr(p, None, g)
                              /\ s.pri = FreshPri(p, None, g)

KeyLess(a, b) ==
  \/ a.period < b.period
  \/ a.period = b.period /\ a.time_elapsed < b.time_elapsed

\* C5: within one game and one pass over its events (one ingestion, one
\* process_game run) no event is classified before an event of the same
\* game with a smaller (period, time_elapsed).
C5_ClassifiedInTimeOrder ==
  \A i, j \in DOMAIN trace :
    (i < j /\ trace[i].run = trace[j].run) =>
      LET a == EventById(events, trace[i].event)
          b == EventById(events, trace[j].event)
      IN ~ (/\ a.game_id = b.game_id
            /\ a.time_elapsed # None
            /\ b.time_elapsed # None
            /\ KeyLess(b, a))

\* C6: a PlayerGameStats row is created or updated only by the aggregation
\* step of process_game, after the loop over the game's events has ended.
C6_AggregatesAfterClassification ==
  [][pstats' # pstats => (run.pc = "classify" /\ run.queue = <<>>)]_vars

ShotsAfter(e) ==
  {n \in events : /\ n.game_id = e.game_id
                  /\ n.period = e.period
                  /\ n.team_id = e.team_id
                  /\ n.time_elapsed # None
                  /\ e.time_elapsed # None
                  /\ n.time_elapsed > e.time_elapsed
                  /\ n.time_elapsed <= e.time_elapsed + 10
                  /\ Lower(n.event_type) \in shot_types \cup {"shot"}}

\* C9: once process_game has gone through all stored events of a game, each
\* controlled ZoneEntry of the game has lead_to_shot true exactly when a
\* same-team shot follows in the same period within 10 s, and then
\* lead_to_shot_time is the first such shot's time minus the entry's time.
C9_EntryLeadsToShot ==
  \A z \in entries : \A e \in events :
    (z.event_id = e.id /\ z.controlled /\ e.game_id \in settled) =>
      IF ShotsAfter(e) = {}
      THEN ~ z.lead_to_shot
      ELSE /\ z.lead_to_shot
           /\ \E n \in ShotsAfter(e) :
                /\ \A m \in ShotsAfter(e) : n.time_elapsed <= m.time_elapsed
                /\ z.lead_to_shot_time = n.time_elapsed - e.time_elapsed

\* C10: every ZoneEntry with lead_to_shot true has a lead_to_shot_time that
\* is set, at least 0 and at most 10.
C10_LeadTimeInWindow ==
  \A z \in entries :
    z.lead_to_shot => /\ z.lead_to_shot_time # None
                      /\ z.lead_to_shot_time >= 0
                      /\ z.lead_to_shot_time <= 10

\* the game's events were ingested in time order
IngestedInTimeOrder(game_key) ==
  \A a, b \in GameEvents(events, game_key) :
    a.id < b.id => KeyLeq(a, b, TRUE)

\* the completed passes to the scorer made in the same period within the
\* 2 s before the goal
AssistingPasses(s) ==
  {p \in passes :
     \E pe, se \in events :
       /\ pe.id = p.event_id /\ se.id = s.event_id
       /\ p.completed /\ p.recipient_id = s.shooter_id
       /\ pe.game_id = se.game_id /\ pe.period = se.period
       /\ se.time_elapsed > pe.time_elapsed
       /\ se.time_elapsed <= pe.time_elapsed + 2}

\* C11: once a game's events have been ingested in time order and
\* process_game has gone through them, every goal that follows a completed
\* pass to its scorer in the same period within 2 s has a passer of such a
\* pass as its primary assist (the goals of the feed name no assist).
C11_PassBecomesPrimaryAssist ==
  \A s \in shots : \A se \in events :
    (/\ s.event_id = se.id /\ s.goal
     /\ IngestedInTimeOrder(se.game_id) /\ se.game_id \in settled
     /\ AssistingPasses(s) # {})
    => s.primary_assist_id \in {p.passer_id : p \in AssistingPasses(s)}

\* the distinct times of a set of passes
TimesOf(S) == {EventById(events, p.event_id).time_elapsed : p \in S}

\* the runs of 3 or more completed Offensive-zone passes of the team: all
\* the team's passes of one period between two times, each later than
\* another one by at most 4 s, and no further pass of the team within 4 s
\* before or after
CycleRuns(game_key, team_id) ==
  LET F == CyclePasses(game_key, team_id)
      ev(p) == EventById(events, p.event_id)
  IN {S \in SUBSET F :
        /\ Cardinality(S) >= 3
        /\ \A a, b \in S : ev(a).period = ev(b).period
        /\ \A a \in S :
             \/ \A b \in S : ev(a).time_elapsed <= ev(b).time_elapsed
             \/ \E b \in S : /\ ev(b).time_elapsed < ev(a).time_elapsed
                             /\ ev(a).time_elapsed - ev(b).time_elapsed <= 4
                             /\ \A c \in S :
                                  \/ ev(c).time_elapsed <= ev(b).time_elapsed
                                  \/ ev(c).time_elapsed >= ev(a).time_elapsed
        /\ \A f \in F \ S : \A a \in S :
             \/ ev(f).period # ev(a).period
             \/ ev(f).time_elapsed > ev(a).time_elapsed + 4
             \/ ev(f).time_elapsed < ev(a).time_elapsed - 4}

\* the passes of each cycle of a result
CycleSets(cycles) ==
  {{p \in passes : \E j \in 1..Len(cycles[i]) : cycles[i][j] = p.id} :
     i \in 1..Len(cycles)}

\* C12: a request for the cycles of a team in a stored game answers with
\* exactly the runs of 3 or more consecutive completed Offensive-zone
\* passes of the team, each within 4 s of the previous one and in the same
\* period.
C12_CyclesAreTheRuns ==
  (response.op = "cycles" /\ response.status # 404) =>
     /\ response.status = 200
     /\ CycleSets(response.body) = CycleRuns(GameKey(1), response.team_id)

\* the loop of detect_cycles, handed a Session, gives exactly the runs
DetectCyclesOnSession ==
  \A t \in {1, 2} : \A r \in detect_cycles("Session", GameKey(1), t) :
    /\ CycleSets(r) = CycleRuns(GameKey(1), t)
    /\ Len(r) = Cardinality(CycleRuns(GameKey(1), t))

\* four passes 2 s apart in one period were found as one cycle of length 4
FourPassCycle ==
  \E r \in detect_cycles("Session", GameKey(1), 1) :
    Len(r) = 1 /\ Len(r[1]) = 4 /\ TimesOf(passes) = {2, 4, 6, 8}

\* the controlled entries of a scope: a player or a team (None: any), in
\* one game given by its NHL id (None: any)
ControlledEntries(player_id, team_id, game_key) ==
  {z \in entries :
     /\ z.controlled
     /\ (player_id # None => z.player_id = player_id)
     /\ \E e \in events : /\ e.id = z.event_id
                         /\ (team_id # None => e.team_id = team_id)
                         /\ (game_key # None => e.game_id = game_key)}

\* converted entries over controlled entries, in thousandths; 0 for none
ConversionRate(S) ==
  IF S = {} THEN 0
  ELSE (Cardinality({z \in S : z.lead_to_shot}) * 1000) \div Cardinality(S)

\* C13: every ECR computed, by process_game for a team and its game or by
\* the metrics service for a player or team and optionally a game, is the
\* number of controlled entries of the scope with lead_to_shot over the
\* number of controlled entries of the scope, and 0 when there are none.
C13_EcrIsConversionRate ==
  [][/\ (run'.ecr # run.ecr /\ run'.ecr # None) =>
          run'.ecr = ConversionRate(ControlledEntries(None, run'.team_id,
                                                      run'.game_id))
     /\ (response' # response /\ response'.op = "ecr") =>
          response'.body = ConversionRate(ControlledEntries(
                 response'.player_id, response'.team_id, response'.game_id))]_vars

\* the metrics service alone keeps the rate within its scope
MetricsEcrIsConversionRate ==
  [][(response' # response /\ response'.op = "ecr") =>
        response'.body = ConversionRate(ControlledEntries(
               response'.player_id, response'.team_id, response'.game_id))]_vars

\* the weighted sum of the four metrics, all in thousandths
IcePlus(ecr, pri, pdi, xg_delta_psm) ==
  Scaled(1500, ecr) + Scaled(1200, pri) + Scaled(1000, pdi)
    + Scaled(2000, xg_delta_psm)

\* C14: every ICE+ stored in player_game_stats is the weighted sum of the
\* row's ECR, PRI, PDI and xG-delta, and every ICE+ the metrics service
\* returns for a player is the weighted sum of the ECR, PRI, PDI and
\* xG-delta the service computes for that player over the same scope.
C14_IcePlusIsWeightedSum ==
  [][/\ \A s \in pstats' :
          s.ice_plus # None =>
            s.ice_plus = IcePlus(OrZero(s.ecr), OrZero(s.pri), OrZero(s.pdi),
                                 OrZero(s.xg_delta_psm))
     /\ (/\ response' # response
         /\ response'.op = "player_metrics"
         /\ response'.player_id \in Players) =>
          \E d \in MetricsService_calculate_xg_delta_psm(
                     passes, shots, events, response'.player_id, None, None) :
            response'.body.ice_plus =
              IcePlus(response'.body.ecr, response'.body.pri,
                      MetricsService_calculate_pdi(passes, recoveries, events,
                                                   response'.player_id, None,
                                                   None),
                      d)]_vars

\* no stored event belongs to the scope
ScopeEmpty(player_id, team_id, game_key) ==
  ~ \E e \in events : /\ (player_id # None => e.player_id = player_id)
                      /\ (team_id # None => e.team_id = team_id)
                      /\ (game_key # None => e.game_id = game_key)

ZeroShotMetrics ==
  [total_shots |-> 0, goals |-> 0, shooting_percentage |-> 0, total_xg |-> 0,
   avg_xg |-> 0, xg_performance |-> 0]

\* the metrics service answers a request over an empty scope with zero
MetricsZeroOnEmpty ==
  [][(/\ response' # response
      /\ response'.op \in {"ecr", "pri", "pdi", "xg_delta_psm", "shot_metrics"}
      /\ ScopeEmpty(response'.player_id, response'.team_id, response'.game_id))
     => response'.body = IF response'.op = "shot_metrics" THEN ZeroShotMetrics
                         ELSE 0]_vars

\* C15: an aggregator asked for a scope without events returns its zero
\* value and does not raise: the ECR, PRI, PDI, xG-delta and shot metrics
\* of the metrics service, and the team ECR, PRI and PDI that process_game
\* computes while no event is stored at all.
C15_ZeroOnEmptyScope ==
  [][/\ (/\ response' # response
         /\ response'.op \in {"ecr", "pri", "pdi", "xg_delta_psm",
                               "shot_metrics"}
         /\ ScopeEmpty(response'.player_id, response'.team_id,
                       response'.game_id))
        => response'.body = IF response'.op = "shot_metrics"
                            THEN ZeroShotMetrics ELSE 0
     /\ (/\ run'.pdi # run.pdi
         /\ run'.pdi # None
         /\ ScopeEmpty(None, None, None))
        => run'.ecr = 0 /\ run'.pri = 0 /\ run'.pdi = 0]_vars

\* the play has no event type, no period or no time
Lacks(play) == play.type = NoType \/ play.period = None \/ play.time = None
Complete(play) == ~ Lacks(play)

\* the stored event carries the play
EventOfPlay(ev, id, play) ==
  \E e \in ev : /\ e.id = id
                    /\ e.event_type = play.type
                    /\ e.period = play.period
                    /\ e.time_elapsed = play.time

\* C16: the import skips a play that lacks its type, period or time as a
\* unit (no event and no derived record is stored for it) and goes on with
\* the next play; when the import returns, every other play of the game
\* has its event, in the order of the feed.
C16_MalformedPlaySkipped ==
  [][/\ (imp.pc = "loop" /\ imp.queue # <<>> /\ Lacks(Head(imp.queue))) =>
          /\ UNCHANGED <<events, shots, entries, passes, recoveries, pstats>>
          /\ imp'.pc = "loop"
          /\ imp'.queue = Tail(imp.queue)
     /\ imp'.pc = "done" =>
          LET kept == SelectSeq(imp'.plays, Complete)
          IN /\ Len(imp'.events) = Len(kept)
             /\ Cardinality(events') = Len(kept)
             /\ \A i \in 1..Len(kept) : EventOfPlay(events', imp'.events[i], kept[i])]_vars

\* an import returned after it had skipped a play and stored a later one
C16_SkippedThenStored ==
  /\ imp.pc = "done"
  /\ \E i, j \in 1..Len(imp.plays) :
       /\ i < j
       /\ Lacks(imp.plays[i])
       /\ Complete(imp.plays[j])
       /\ events # {}

\* C17: the expected-goal value of a shot with known distance and angle
\* is at least 0.01 and at most 0.95, whatever its type, flags and
\* situation; with distance or angle unknown it is exactly 0.05.
C17_XgWithinBounds ==
  response.op = "xg" =>
    IF response.distance = None \/ response.angle = None
    THEN response.body = 50
    ELSE response.body >= 10 /\ response.body <= 950

\* the part of C17 the code keeps: the cap and the default
XgCapAndDefault ==
  response.op = "xg" =>
    IF response.distance = None \/ response.angle = None
    THEN response.body = 50
    ELSE response.body >= 0 /\ response.body <= 950

\* a shot of the same game and period that the clock puts before e
PriorShots(e) ==
  {p \in events : /\ p.game_id = e.game_id
                  /\ p.period = e.period
                  /\ Lower(p.event_type) \in shot_types
                  /\ p.time_elapsed < e.time_elapsed}

\* C18: the engine marks a shot as a rebound exactly when the stored
\* events hold an earlier shot, by either team, of the same game and period
\* less than 3 seconds before it; with every earlier shot more than 3
\* seconds back the shot is no rebound.
C18_ReboundIffPriorShotWithin3s ==
  [][\A s \in shots' \ shots :
       LET e == EventById(events, s.event_id)
       IN /\ (\E p \in PriorShots(e) : e.time_elapsed - p.time_elapsed < 3)
               => s.rebound_shot
          /\ (\A p \in PriorShots(e) : e.time_elapsed - p.time_elapsed > 3)
               => ~s.rebound_shot]_vars

\* the half of C18 the code keeps: a rebound has a shot at most 3 seconds
\* before it
ReboundHasPriorShot ==
  [][\A s \in shots' \ shots :
       LET e == EventById(events, s.event_id)
       IN s.rebound_shot =>
            \E p \in PriorShots(e) : e.time_elapsed - p.time_elapsed <= 3]_vars

\* a shot two seconds after a shot on goal was classified as a rebound
ReboundClassified ==
  \E s \in shots : s.rebound_shot

\* the zone of the contract: beyond 25 offensive, below -25 defensive,
\* neutral between, at the two thresholds and without a coordinate
ZoneOfContract(x) ==
  IF x # None /\ x > 25 THEN "OZ"
  ELSE IF x # None /\ x < 0 - 25 THEN "DZ"
  ELSE "NZ"

\* C19: every place that puts an event into a zone gives exactly one of
\* the three labels, and the one of the contract: offensive above 25,
\* defensive below -25, neutral otherwise, the thresholds and a missing
\* coordinate included.
C19_ZoneThresholdsEverywhere ==
  response.op = "zone" =>
    /\ response.body \in {"OZ", "NZ", "DZ"}
    /\ response.body = ZoneOfContract(response.x)

\* the part of C19 the code keeps: the classifiers and the zone stored on
\* passes and recoveries follow the contract
ZoneClassifiersAgree ==
  (response.op = "zone" /\ response.place # "_is_rush_entry") =>
    response.body = ZoneOfContract(response.x)

\* C20: GET /api/teams/{team_id} answers 200 exactly when a create request
\* has named the team_id and no delete request has named it since, and 404
\* otherwise, whatever create, update and delete requests came before.
C20_GetTeamIffCreated ==
  [][(response' # response /\ response'.op = "get_team" /\ response'.via = "app")
       => /\ response'.status \in {200, 404}
          /\ (response'.status = 200) <=> (response'.team_id \in created)]_vars

\* what the handlers of teams.py keep, called on the router itself: the
\* answer is 200 with the stored row exactly when the table holds one
TeamsRouterFindsStoredRow ==
  [][(response' # response /\ response'.op = "get_team"
        /\ response'.via = "router")
       => IF \E r \in teams : r.team_id = response'.team_id
          THEN /\ response'.status = 200
               /\ \E r \in teams : /\ r.team_id = response'.team_id
                                    /\ r.name = response'.body
          ELSE response'.status = 404]_vars

\* an event without the entry label, and with no classifier of its own
\* type, that lands in the offensive zone after a same-team event of the
\* last 5 seconds outside it, or as the team's first event for 3 seconds
InferredEntry(e) ==
  /\ ~HasEntry(Lower(e.event_type))
  /\ Lower(e.event_type) \notin shot_types \cup recovery_types
  /\ e.time_elapsed # None
  /\ _determine_zone(e.x_coordinate) = "OZ"
  /\ \/ \E p \in Latest({q \in Before(events, e, 5) : q.team_id = e.team_id}) :
          _determine_zone(p.x_coordinate) # "OZ"
     \/ {q \in Before(events, e, 3) : q.team_id = e.team_id} = {}

\* C21: once process_game has gone through all stored events of a game,
\* every event of the game that is an inferred entry has a ZoneEntry row.
C21_InferredEntryStored ==
  \A e \in events :
    (e.game_id \in settled /\ InferredEntry(e)) => HasRow(entries, e)

\* the part of C21 the code keeps: an inferred entry whose type has "pass"
\* in it reaches _is_zone_entry and gets its row
InferredEntryOfPassStored ==
  \A e \in events :
    (e.game_id \in settled /\ InferredEntry(e) /\ HasPass(Lower(e.event_type)))
      => HasRow(entries, e)

\* the events of the shot's team, game and period in the 5 seconds before
\* it that lie in the neutral or the defensive zone
RushOrigins(e) ==
  {p \in Before(events, e, 5) :
     /\ p.team_id = e.team_id
     /\ _determine_zone(p.x_coordinate) \in {"NZ", "DZ"}}

\* C22: the engine marks a shot as a rush shot exactly when the stored
\* events hold an event of the same team, game and period in the neutral or
\* defensive zone within the 5 seconds before the shot.
C22_RushIffOwnEventOutsideZone ==
  [][\A s \in shots' \ shots :
       LET e == EventById(events, s.event_id)
       IN s.rush_shot <=> (RushOrigins(e) # {})]_vars

\* the part of C22 the code keeps: a rush shot has an event in the neutral
\* zone, of either team, at most 3 seconds before it
RushShotHasNeutralEvent ==
  [][\A s \in shots' \ shots :
       LET e == EventById(events, s.event_id)
       IN s.rush_shot =>
            \E p \in Before(events, e, 3) :
              _determine_zone(p.x_coordinate) = "NZ"]_vars

\* the events of the other team in the pass's game and period within the
\* 2 seconds after it
OpponentAfter(e) == {n \in After(events, e, 2) : n.team_id # e.team_id}

\* C23: once process_game has gone through all stored events of a game,
\* every pass of the game without recipient is incomplete, is intercepted
\* exactly when it is incomplete and an event of the other team follows
\* within 2 seconds, the interceptor being the player of the first such
\* event, and no pass is both completed and intercepted.
C23_PassCompletionAndInterception ==
  \A ps \in passes : \A e \in events :
    (ps.event_id = e.id /\ e.game_id \in settled) =>
      /\ (ps.recipient_id = None => ~ps.completed)
      /\ ps.intercepted <=> (~ps.completed /\ OpponentAfter(e) # {})
      /\ (ps.intercepted =>
            \E n \in Earliest(OpponentAfter(e)) :
              ps.intercepted_by_id = n.player_id)
      /\ ~(ps.completed /\ ps.intercepted)

\* the part of C23 the code keeps: a pass without recipient is incomplete
\* and no pass is both completed and intercepted
PassWithoutRecipientIncomplete ==
  \A ps \in passes :
    /\ (ps.recipient_id = None => ~ps.completed)
    /\ ~(ps.completed /\ ps.intercepted)

\* the completed passes of the player in the game that a shot of the pass's
\* recipient follows within 3 seconds in the same period
PassesToShooter(player_id, g) ==
  {p \in passes :
     /\ p.passer_id = player_id
     /\ p.completed
     /\ \E e \in events :
          /\ e.id = p.event_id
          /\ e.game_id = GameKey(g)
          /\ \E n \in After(events, e, 3) : \E sh \in shots :
               sh.event_id = n.id /\ sh.shooter_id = p.recipient_id}

\* C24: the xG delta accumulated for a passer in a game is never negative,
\* and it is above zero only when one of the passer's completed passes of
\* the game is followed within 3 seconds, in the same period, by a shot of
\* the pass's recipient: any other pass contributes nothing.
C24_XgDeltaOnlyFromPassToShooter ==
  \A s \in pstats :
    s.xg_delta_psm # None =>
      /\ s.xg_delta_psm >= 0
      /\ (s.xg_delta_psm > 0 => PassesToShooter(s.player_id, s.game_id) # {})

\* the part of C24 the code keeps: the accumulated value is never negative
\* and comes from a completed pass of the passer
XgDeltaNeverNegative ==
  \A s \in pstats :
    s.xg_delta_psm # None =>
      /\ s.xg_delta_psm >= 0
      /\ (s.xg_delta_psm > 0 =>
            \E p \in passes : p.passer_id = s.player_id /\ p.completed)

\* C25: the engine classifies a shot whose coordinates are missing with
\* distance and angle null, xg 0.05 and the scoring-chance, high-danger,
\* rush and rebound flags all false, whatever events precede it.
C25_ShotWithoutCoordinatesDefaults ==
  [][\A s \in shots' \ shots :
       LET e == EventById(events, s.event_id)
       IN e.x_coordinate = None =>
            /\ s.distance = None /\ s.angle = None
            /\ s.xg = 50
            /\ ~s.is_scoring_chance /\ ~s.is_high_danger
            /\ ~s.rush_shot /\ ~s.rebound_shot]_vars

\* the part of C25 the code keeps: the defaults that depend on the shot's
\* own coordinates
ShotWithoutCoordinatesOwnDefaults ==
  [][\A s \in shots' \ shots :
       LET e == EventById(events, s.event_id)
       IN e.x_coordinate = None =>
            /\ s.distance = None /\ s.angle = None
            /\ s.xg = 50
            /\ ~s.is_scoring_chance /\ ~s.is_high_danger]_vars

\* ------------------------------------------------------------------------
\* Formation fallbacks
\* ------------------------------------------------------------------------
\* the detector has answered for the kind of query results
Detected(op) == response.op = "formation" /\ response.of.op = op

\* the query results hold no data: the game is missing, the team has no
\* events of the situation, or (penalty kill) there is no shot to count
NoFormationData ==
  \/ ~response.of.game
  \/ (response.of.op = "pp" /\ ~response.of.pp_events)
  \/ (response.of.op = "pk" /\ response.of.pk_events = <<>>)
  \/ (response.of.op = "pk" /\ response.of.shot_coords = <<>>)

\* the named patterns that have a threshold condition
ThresholdPatterns ==
  {"UMBRELLA", "OVERLOAD", "SPREAD", "DIAMOND_PLUS_ONE", "DIAMOND",
   "WEDGE_PLUS_ONE"}

\* C26: whenever the detector has no data, or no named pattern's threshold
\* condition holds, it returns the fallback formation: "1-3-1" for the
\* power play and "BOX" for the penalty kill; so every answer is a
\* pattern whose threshold condition held or the fallback, and without
\* data it is the fallback
C26_FormationFallback ==
  /\ (Detected("pp") =>
        /\ response.body \in ThresholdPatterns \cup {"1-3-1"}
        /\ (NoFormationData => response.body = "1-3-1"))
  /\ (Detected("pk") =>
        /\ response.body \in ThresholdPatterns \cup {"BOX"}
        /\ (NoFormationData => response.body = "BOX"))

\* the part the code keeps: without data the answers are "1-3-1" and
\* "BOX", and a power-play answer that is no pattern is "1-3-1" unless a
\* coordinate was missing
FormationFallbackWithoutData ==
  /\ (Detected("pp") /\ NoFormationData => response.body = "1-3-1")
  /\ (Detected("pk") /\ NoFormationData => response.body = "BOX")
  /\ (Detected("pp") /\ response.body \notin ThresholdPatterns
        => response.body \in {"1-3-1", "TypeError"})

\* a penalty kill with shots where no threshold condition held
PkDefaultReached ==
  /\ Detected("pk")
  /\ ~NoFormationData
  /\ response.body \notin ThresholdPatterns \cup {"BOX"}
\* ------------------------------------------------------------------------
\* Batch processing
\* ------------------------------------------------------------------------
\* an invocation of process_all_games has closed its session
BatchDone == response.op = "batch" /\ response.pc = "done"

\* the games whose run the invocation before did not complete
FailedBefore == {g \in Games : <<g, "failed">> \in response.prev}

\* no event has two derived rows of one table
NoDuplicateRecords ==
  /\ \A a, b \in shots : a.event_id = b.event_id => a = b
  /\ \A a, b \in entries : a.event_id = b.event_id => a = b
  /\ \A a, b \in recoveries : a.event_id = b.event_id => a = b

\* C27: a finished batch has attempted every game, whatever failed before
\* it in the list; and when the orchestrator is invoked again, the run of a
\* game that failed the first time completes, and no record is duplicated
C27_BatchConfinesFailureAndRerunCompletes ==
  /\ (BatchDone => Len(response.outcome) = Cardinality(Games))
  /\ (response.op = "batch" =>
        \A i \in 1..Len(response.outcome) :
          response.games[i] \in FailedBefore => response.outcome[i] = "done")
  /\ NoDuplicateRecords

\* the part the code keeps: every game of the list gets its attempt, after
\* a failed one too, and a second invocation duplicates nothing
BatchAttemptsEveryGame ==
  /\ (BatchDone =>
        /\ Len(response.outcome) = Cardinality(Games)
        /\ {response.games[i] : i \in 1..Len(response.games)} = Games)
  /\ (response.op = "batch" /\ response.pc = "try" =>
        run.game_id = GameKey(response.games[Len(response.outcome) + 1]))
  /\ NoDuplicateRecords

\* an invocation that has started finishes
BatchTerminates ==
  (response.op = "batch" /\ response.pc # "done") ~> BatchDone

\* a game with a shot failed in the first invocation and again in the second
RerunFailedAgain ==
  /\ response.op = "batch"
  /\ response.seq = 2
  /\ shots # {}
  /\ \E i \in 1..Len(response.outcome) :
       /\ response.games[i] \in FailedBefore
       /\ response.outcome[i] = "failed"

\* a later game of the list was attempted after an earlier one had failed
LaterGameAttempted ==
  /\ response.op = "batch"
  /\ Len(response.outcome) = 2
  /\ response.outcome[1] = "failed"

\* a game that had failed completed when the orchestrator was invoked again
RerunCompleted ==
  /\ response.op = "batch"
  /\ \E i \in 1..Len(response.outcome) :
       /\ response.games[i] \in FailedBefore
       /\ response.outcome[i] = "done"
\* ------------------------------------------------------------------------
\* Incremental PRI against calculate_pri
\* ------------------------------------------------------------------------
\* the PRI accumulated in the player's row of the game, in thousandths
AccumulatedPri(player_id, g) ==
  LET rows == {s \in pstats : s.player_id = player_id /\ s.game_id = g}
  IN IF rows = {} THEN 0 ELSE OrZero((CHOOSE s \in rows : TRUE).pri)

\* the weights of the contract, in thousandths
ContractPri(r) ==
  LET z == CASE r.zone = "OZ" -> 2000 [] r.zone = "NZ" -> 1000
             [] r.zone = "DZ" -> 500
      t == CASE r.recovery_type = "takeaway" -> 2000
             [] r.recovery_type = "forecheck" -> 1500
             [] r.recovery_type = "loose" -> 1000
      o == IF r.lead_to_possession THEN 1500 ELSE 1000
  IN (((z * t) \div 1000) * o) \div 1000

RECURSIVE ContractSum(_)
ContractSum(rs) ==
  IF rs = {} THEN 0
  ELSE LET r == CHOOSE x \in rs : TRUE
       IN ContractPri(r) + ContractSum(rs \ {r})

\* the recoveries of the player in the game
RecoveriesOf(player_id, g) ==
  {r \in recoveries :
     /\ r.player_id = player_id
     /\ \E e \in events : e.id = r.event_id /\ e.game_id = GameKey(g)}

LinkInPeriod(ev, id, e) ==
  id # None => \E p \in ev : /\ p.id = id
                             /\ p.game_id = e.game_id
                             /\ p.period = e.period

\* an event of e's game, period and team after e
FollowerInPeriod(ev, e) ==
  {n \in ev : /\ n.game_id = e.game_id
              /\ n.period = e.period
              /\ n.team_id = e.team_id
              /\ n.time_elapsed # None
              /\ n.time_elapsed > e.time_elapsed}

\* C29: no link made by a classification step crosses a period boundary:
\* the preceding event of a new shot or recovery row, the event that makes
\* the engine say a recovery led to possession, and the shot an entry led
\* to are events of the same game and the same period as the row's own
\* event
C29_LinksStayInPeriod ==
  [][/\ \A s \in shots' \ shots :
          LinkInPeriod(events', s.preceding_event_id,
                       EventById(events', s.event_id))
     /\ \A r \in recoveries' \ recoveries :
          /\ LinkInPeriod(events', r.preceded_by_id,
                          EventById(events', r.event_id))
          /\ (run.pc = "classify" /\ r.lead_to_possession
                => FollowerInPeriod(events', EventById(events', r.event_id))
                     # {})
     /\ \A z \in entries' \ entries :
          z.lead_to_shot
            => \E n \in FollowerInPeriod(events', EventById(events', z.event_id)) :
                 /\ n.event_type \in entry_shot_types
                 /\ z.lead_to_shot_time
                      = n.time_elapsed
                          - EventById(events', z.event_id).time_elapsed
    ]_vars

\* the engine stored a shot of period 2 without a preceding event although
\* an event of period 1 has its time_elapsed inside the shot's window
OtherPeriodInsideWindow ==
  \E s \in shots, e \in events, p \in events :
    /\ s.event_id = e.id
    /\ s.preceding_event_id = None
    /\ \E k \in 1..Len(trace) :
         trace[k].run > 0 /\ trace[k].op = "shot" /\ trace[k].event = e.id
    /\ e.period = 2
    /\ p.period = 1
    /\ p.game_id = e.game_id
    /\ p.time_elapsed < e.time_elapsed
    /\ p.time_elapsed >= e.time_elapsed - 3
\* ------------------------------------------------------------------------
\* One classifier per event
\* ------------------------------------------------------------------------
\* the sum of the five counters of the run
ProcessedSum ==
  run.stats.shots_processed + run.stats.entries_processed
    + run.stats.passes_processed + run.stats.recoveries_processed
    + run.stats.other_processed

\* the tables that hold a derived row of the event
DerivedTables(e) ==
  {t \in {"shot", "entry", "pass", "recovery"} :
     \E r \in (CASE t = "shot" -> shots [] t = "entry" -> entries
                  [] t = "pass" -> passes [] t = "recovery" -> recoveries) :
       r.event_id = e.id}

\* C30: in one process_game run an event is handed to at most one
\* classifier, so the five counters add up to at most total_events, and
\* total_events is the number of events of the game; no event has derived
\* rows in two tables
C30_OneClassifierPerEvent ==
  /\ (run.pc # "idle" => ProcessedSum <= run.stats.total_events)
  /\ (~Quiet => run.stats.total_events
                  = Cardinality(GameEvents(events, run.game_id)))
  /\ \A i, j \in 1..Len(trace) :
       (i < j /\ trace[i].run > 0 /\ trace[i].run = trace[j].run)
         => trace[i].event # trace[j].event
  /\ \A e \in events : Cardinality(DerivedTables(e)) <= 1

\* a run has classified a shot and a recovery, each once
TwoClassifiersOneRun ==
  /\ run.pc \in {"teams", "failed", "done"}
  /\ run.queue = <<>>
  /\ run.stats.total_events = 2
  /\ run.stats.shots_processed = 1
  /\ run.stats.recoveries_processed = 1
====
